---- MODULE Spec2Model ----
(***************************************************************************)
(* Model of the nees emulator core: the PPU register file and its          *)
(* dot-chunked stepping loop (emulator/src/ppu/mod.rs) and the MMC3 CPU    *)
(* and PPU memory maps (emulator/src/memory_map/mmc3.rs).                  *)
(*                                                                         *)
(* The framebuffer contents, the palette and nametable bytes that only     *)
(* decide pixel colours are not part of the state: they never influence    *)
(* the position, the cycle counters or any register.  The bounds check on  *)
(* the framebuffer index is modelled, because it aborts the program.       *)
(***************************************************************************)
EXTENDS Integers, Sequences, FiniteSets, TLC

VARIABLES
    cpu,         \* cpu::Cpu fields used by the PPU and the mapper
    ppu,         \* ppu::Ppu
    mmc3,        \* Mmc3CpuMemory mapper registers
    ppu_memory,  \* Mmc3PpuMemory mapper registers
    halt,        \* "running", "hung" (step loop spins), "panicked"
    bus,         \* the last operation performed and the value it returned
    lag          \* ppu.cycle_count - 3 * cpu.cycle_count at the return of
                 \* every catch_up call made by the last operation

vars == <<cpu, ppu, mmc3, ppu_memory, halt, bus, lag>>

(***************************************************************************)
(* Bounds of the model.                                                    *)
(***************************************************************************)
\* the frame loop stops once the CPU cycle counter passed this value: one
\* frame (29781 CPU cycles) and the first scanlines of the next one
MaxCpuCycle == 32200

\* the instruction loop without the frame loop's catch_up, and the OAM DMA,
\* stop once the CPU cycle counter passed this value
MaxBusCycle == 700

\* the IRQ line is not deasserted further than this many levels below zero
MaxIrqDeassert == 3

\* PPUDATA accesses that the CPU makes before it sets the VRAM address again
MaxDataRun == 2

\* CPU cycles of the pre-render scanline and of scanline 0 (2 * 341 / 3)
MaxScanlineCycle == 228

\* the last scanline on which sprites are evaluated
MaxSpriteScanline == 29

(***************************************************************************)
(* Bit helpers (u8 / u16 arithmetic).                                      *)
(***************************************************************************)
Pow2(k) == 2 ^ k

\* bit k of n
Bit(n, k) == (n \div Pow2(k)) % 2

\* n with the field of `width` bits at bit `lo` replaced by val
SetField(n, lo, width, val) ==
    n - ((n \div Pow2(lo)) % Pow2(width)) * Pow2(lo) + val * Pow2(lo)

\* n with bit k toggled (n ^ (1 << k))
ToggleBit(n, k) == IF Bit(n, k) = 1 THEN n - Pow2(k) ELSE n + Pow2(k)

\* n | (1 << k)
OrBit(n, k) == IF Bit(n, k) = 1 THEN n ELSE n + Pow2(k)

(***************************************************************************)
(* Byte arrays that are zeroed at construction (prg_ram, nametables,       *)
(* palettes): a function from the indices of the nonzero bytes to them.    *)
(***************************************************************************)
\* array[i]
byte_at(array, i) == IF i \in DOMAIN array THEN array[i] ELSE 0

\* array[i] = val
store_byte(array, i, val) ==
    [j \in IF val = 0 THEN DOMAIN array \ {i} ELSE DOMAIN array \cup {i} |->
        IF j = i THEN val ELSE array[j]]

(***************************************************************************)
(* VramAddrRegister                                                        *)
(***************************************************************************)
get_addr(v) == v % 16384

get_coarse_x(v) == v % 32

set_coarse_x(v, coarse_x) == SetField(v, 0, 5, coarse_x)

get_coarse_y(v) == (v \div 32) % 32

set_coarse_y(v, coarse_y) == SetField(v, 5, 5, coarse_y)

get_fine_y(v) == (v \div 4096) % 8

set_fine_y(v, fine_y) == SetField(v, 12, 3, fine_y)

get_nametable_select(v) == (v \div 1024) % 4

set_nametable_select(v, select) == SetField(v, 10, 2, select)

(***************************************************************************)
(* Ppu: flag accessors                                                     *)
(***************************************************************************)
is_vblank_nmi_enabled(p) == (p.ppuctrl \div 128) # 0

is_background_enable(p) == Bit(p.ppumask, 3) # 0

is_sprites_enable(p) == Bit(p.ppumask, 4) # 0

is_vblank(p) == (p.ppustatus \div 128) # 0

\* self.ppustatus |= (vblank as u8) << 7
set_vblank(p, vblank) ==
    [p EXCEPT !.ppustatus = IF vblank THEN OrBit(@, 7) ELSE @]

\* self.ppustatus |= (overflow as u8) << 5
set_sprite_overflow(p, overflow) ==
    [p EXCEPT !.ppustatus = IF overflow THEN OrBit(@, 5) ELSE @]

\* self.ppustatus |= (hit as u8) << 6
set_sprite_zero_hit(p, hit) ==
    [p EXCEPT !.ppustatus = IF hit THEN OrBit(@, 6) ELSE @]

is_currently_rendering(p) ==
    ~is_vblank(p) /\ (is_sprites_enable(p) \/ is_background_enable(p))

get_vram_addr_increment(p) == Bit(p.ppuctrl, 2) # 0

(***************************************************************************)
(* Ppu: VRAM address increments                                            *)
(***************************************************************************)
increment_vram_addr(p) ==
    LET increment == IF get_vram_addr_increment(p) THEN 32 ELSE 1
    IN [p EXCEPT !.current_vram_addr = (@ + increment) % 16384]

\* increment_vram_addr_y that adds 1 to fine y without the carry
increment_vram_addr_y_without_carry(p) ==
    [p EXCEPT !.current_vram_addr = @ + 4096]

\* increment_vram_addr_y with coarse y 30 wrapping to 0 like coarse y 31
increment_vram_addr_y_wrapping_at_30(p) ==
    LET v == p.current_vram_addr
    IN IF get_fine_y(v) = 7
       THEN LET v0 == set_fine_y(v, 0)
            IN IF get_coarse_y(v0) = 29
               THEN [p EXCEPT !.current_vram_addr =
                                 ToggleBit(set_coarse_y(v0, 0), 11)]
               ELSE IF get_coarse_y(v0) \in {30, 31}
               THEN [p EXCEPT !.current_vram_addr = set_coarse_y(v0, 0)]
               ELSE [p EXCEPT !.current_vram_addr = v0 + 32]
       ELSE [p EXCEPT !.current_vram_addr = v + 4096]

increment_vram_addr_y(p) ==
    LET v == p.current_vram_addr
    IN IF get_fine_y(v) = 7
       THEN LET v0 == set_fine_y(v, 0)
            IN IF get_coarse_y(v0) = 29
               THEN [p EXCEPT !.current_vram_addr =
                                 ToggleBit(set_coarse_y(v0, 0), 11)]
               ELSE IF get_coarse_y(v0) = 31
               THEN [p EXCEPT !.current_vram_addr = set_coarse_y(v0, 0)]
               ELSE [p EXCEPT !.current_vram_addr = v0 + 32]
       ELSE [p EXCEPT !.current_vram_addr = v + 4096]

\* increment_vram_addr_coarse_x that stays in the nametable
increment_vram_addr_coarse_x_without_toggle(p) ==
    [p EXCEPT !.current_vram_addr = set_coarse_x(@, (get_coarse_x(@) + 1) % 32)]

increment_vram_addr_coarse_x(p) ==
    LET v == p.current_vram_addr
    IN IF get_coarse_x(v) = 31
       THEN [p EXCEPT !.current_vram_addr = ToggleBit(set_coarse_x(v, 0), 10)]
       ELSE [p EXCEPT !.current_vram_addr = v + 1]

\* the copy of nametable select and coarse x from t into v done in step()
transfer_temp_horizontal_bits(p) ==
    LET temp_nametable == get_nametable_select(p.temp_vram_addr)
        temp_coarse_x == get_coarse_x(p.temp_vram_addr)
    IN [p EXCEPT !.current_vram_addr =
          set_coarse_x(set_nametable_select(@, temp_nametable), temp_coarse_x)]

\* the copy of coarse y and fine y from t into v done in step()
transfer_temp_vert_bits(p) ==
    LET temp_coarse_y == get_coarse_y(p.temp_vram_addr)
        temp_fine_y == get_fine_y(p.temp_vram_addr)
    IN [p EXCEPT !.current_vram_addr =
          set_fine_y(set_coarse_y(@, temp_coarse_y), temp_fine_y)]

(***************************************************************************)
(* Ppu::draw_tile_row and Ppu::draw_tile_row_backdrop.  Both return the    *)
(* machine after the pixels were drawn; a framebuffer index outside the    *)
(* 256x240 buffer aborts the program.                                      *)
(***************************************************************************)
FramebufferLen == 256 * 240

\* ((dot - 1 + fine_x_scroll) >> 3) as u8 & 0x3f
horizontal_tile_count(p) ==
    (((p.current_scanline_dot - 1 + p.fine_x_scroll) \div 8) % 256) % 64

\* the number of elements of 'pixels_range'
pixels_range_len(p) ==
    IF horizontal_tile_count(p) = 32
    THEN 8 - (((p.current_scanline_dot - 1) % 256) % 8)
    ELSE IF horizontal_tile_count(p) = 0
    THEN 8 - p.fine_x_scroll
    ELSE 8

\* framebuffer[screen_y * 256 + screen_x] for the last of n pixels
last_pixel_index(p, n) ==
    p.current_scanline * 256 + (p.current_scanline_dot - 1) + (n - 1)

draw_tile_row(m) ==
    LET p == m.ppu
        n == pixels_range_len(p)
    IN IF last_pixel_index(p, n) >= FramebufferLen
       THEN [m EXCEPT !.halt = "panicked"]
       ELSE LET q == [p EXCEPT !.current_scanline_dot = (@ + n) % 65536,
                               !.cycle_count = @ + n]
            IN [m EXCEPT !.ppu = IF q.current_scanline_dot = 257
                                 THEN increment_vram_addr_y(q)
                                 ELSE increment_vram_addr_coarse_x(q)]

draw_tile_row_backdrop(m) ==
    LET p == m.ppu
    IN IF last_pixel_index(p, 8) >= FramebufferLen
       THEN [m EXCEPT !.halt = "panicked"]
       ELSE LET dot == (p.current_scanline_dot + 8) % 65536
            IN [m EXCEPT !.ppu =
                  [p EXCEPT !.current_scanline_dot = dot,
                            !.current_scanline = IF dot = 0 THEN @ + 1 ELSE @,
                            !.cycle_count = @ + 8]]

(***************************************************************************)
(* Ppu::step: one iteration of the while loop, by scanline class.          *)
(* m = [ppu, nmi, halt]; an iteration that reaches a `_ => ()` arm changes *)
(* nothing, so the loop never ends: halt = "hung".                         *)
(***************************************************************************)
\* a chunk that charges two PPU cycles per dot
advance_two_cycles_per_dot(p, cycles, dots) ==
    [p EXCEPT !.cycle_count = @ + 2 * cycles, !.current_scanline_dot = @ + dots]

advance(p, cycles, dots) ==
    [p EXCEPT !.cycle_count = @ + cycles, !.current_scanline_dot = @ + dots]

\* the end of a scanline charged one PPU cycle more
next_scanline_one_cycle_more(p, cycles, scanline) ==
    [p EXCEPT !.cycle_count = @ + cycles + 1,
              !.current_scanline_dot = 0,
              !.current_scanline = scanline]

next_scanline(p, cycles, scanline) ==
    [p EXCEPT !.cycle_count = @ + cycles,
              !.current_scanline_dot = 0,
              !.current_scanline = scanline]

step_pre_render(m) ==
    LET p == m.ppu
        dot == p.current_scanline_dot
    IN IF dot = 0
       THEN [m EXCEPT !.ppu = advance(p, IF p.even_frame THEN 1 ELSE 0, 1)]
       ELSE IF dot = 1
       THEN [m EXCEPT !.ppu = advance(set_vblank(p, FALSE), 7, 7)]
       ELSE IF dot \in 2..255
       THEN [m EXCEPT !.ppu = advance(p, 8, 8)]
       ELSE IF dot = 256
       THEN [m EXCEPT !.ppu = advance(transfer_temp_horizontal_bits(p), 8, 8)]
       ELSE IF dot \in 257..279
       THEN [m EXCEPT !.ppu = advance(p, 8, 8)]
       ELSE IF dot = 280
       THEN [m EXCEPT !.ppu = advance(transfer_temp_vert_bits(p), 8, 8)]
       ELSE IF dot \in 281..335
       THEN [m EXCEPT !.ppu = advance(p, 8, 8)]
       ELSE IF dot = 336
       THEN [m EXCEPT !.ppu = next_scanline(p, 5, 0)]
       ELSE [m EXCEPT !.halt = "hung"]

step_visible(m) ==
    LET p == m.ppu
        dot == p.current_scanline_dot
    IN IF dot = 0
       THEN [m EXCEPT !.ppu = advance(p, 1, 1)]
       ELSE IF dot \in 1..256
       THEN IF ~is_background_enable(p)
            THEN draw_tile_row_backdrop(m)
            ELSE draw_tile_row(m)
       ELSE IF dot = 257
       THEN [m EXCEPT !.ppu = advance(transfer_temp_horizontal_bits(p), 8, 8)]
       ELSE IF dot \in 258..336
       THEN [m EXCEPT !.ppu = advance(p, 8, 8)]
       ELSE IF dot = 337
       THEN [m EXCEPT !.ppu = next_scanline(p, 4, p.current_scanline + 1)]
       ELSE [m EXCEPT !.halt = "hung"]

step_idle(m) ==
    LET p == m.ppu
        dot == p.current_scanline_dot
    IN IF dot = 256
       THEN [m EXCEPT !.ppu = advance(transfer_temp_horizontal_bits(p), 8, 8)]
       ELSE IF dot = 336
       THEN [m EXCEPT !.ppu = next_scanline(p, 5, p.current_scanline + 1)]
       ELSE [m EXCEPT !.ppu = advance(p, 8, 8)]

step_vblank(m) ==
    LET p == m.ppu
        dot == p.current_scanline_dot
    IN IF dot = 0
       THEN [m EXCEPT !.ppu = advance(p, 1, 1)]
       ELSE IF dot = 1
       THEN [m EXCEPT !.ppu = advance(set_vblank(p, TRUE), 7, 7),
                      !.nmi = IF is_vblank_nmi_enabled(p) THEN TRUE ELSE @]
       ELSE IF dot = 256
       THEN [m EXCEPT !.ppu = advance(transfer_temp_horizontal_bits(p), 8, 8)]
       ELSE IF dot = 336
       THEN IF p.current_scanline = 260
            THEN [m EXCEPT !.ppu =
                    [next_scanline(p, 5, -1) EXCEPT !.even_frame =
                        IF is_sprites_enable(p) \/ is_background_enable(p)
                        THEN ~@ ELSE @]]
            ELSE [m EXCEPT !.ppu = next_scanline(p, 5, p.current_scanline + 1)]
       ELSE [m EXCEPT !.ppu = advance(p, 8, 8)]

step_once(m) ==
    LET scanline == m.ppu.current_scanline
    IN IF scanline = -1 THEN step_pre_render(m)
       ELSE IF scanline \in 0..239 THEN step_visible(m)
       ELSE IF scanline = 240 THEN step_idle(m)
       ELSE IF scanline \in 241..260 THEN step_vblank(m)
       ELSE [m EXCEPT !.halt = "hung"]

\* the loop of Ppu::step: at most n iterations, split in halves so that the
\* evaluation depth stays logarithmic in n
RECURSIVE step_loop(_, _, _)
step_loop(m, target_cycles, n) ==
    IF n = 0 \/ m.halt # "running" \/ m.ppu.cycle_count >= target_cycles
    THEN m
    ELSE IF n = 1
    THEN step_once(m)
    ELSE step_loop(step_loop(m, target_cycles, n \div 2),
                   target_cycles, n - (n \div 2))

\* every iteration adds at least one cycle, except dot 0 of the pre-render
\* scanline of an odd frame (once per frame)
step(m, target_cycles) ==
    IF m.ppu.cycle_count >= target_cycles
    THEN m
    ELSE LET dist == target_cycles - m.ppu.cycle_count
         IN step_loop(m, target_cycles, dist + 2 + (dist \div 80000))

\* Ppu::catch_up
catch_up(m, cpu_cycle_count) == step(m, cpu_cycle_count * 3)

(***************************************************************************)
(* Mmc3PpuMemory::read and ::write: the PPU memory map of the cartridge.   *)
(* A byte of CHR ROM is named by its bank and its offset in the bank.      *)
(***************************************************************************)
\* self.chr_banks.len(): 1 KiB banks of the cartridge (a power of two)
ChrBanks == 8

\* self.prg_banks.len(): 8 KiB banks of the cartridge (a power of two)
PrgBanks == 16

\* the bank of the layout without A12 inversion, whatever a12_invert is
chr_bank_idx_never_inverted(pm, addr) ==
    LET mask == (pm.chr_banks_len - 1) % 256
    IN IF Bit(addr, 12) = 0
       THEN LET masked == pm.r[(addr \div 2048) % 2] % (mask + 1)
            IN IF Bit(addr, 10) # 0
               THEN OrBit(masked, 0)
               ELSE masked - (masked % 2)
       ELSE pm.r[(addr \div 1024) - 2] % (mask + 1)

chr_bank_idx(pm, addr) ==
    LET a12 == Bit(addr, 12) # 0
        a12_invert == pm.a12_invert = 1
        n_banks == pm.chr_banks_len
        mask == (n_banks - 1) % 256
    IN IF a12 = a12_invert
       THEN LET bank_register_idx == (addr \div 2048) % 2
                masked == pm.r[bank_register_idx] % (mask + 1)
            IN IF Bit(addr, 10) # 0
               THEN OrBit(masked, 0)
               ELSE masked - (masked % 2)
       ELSE LET bank_register_idx == IF a12_invert
                                     THEN (addr \div 1024) + 2
                                     ELSE (addr \div 1024) - 2
            IN pm.r[bank_register_idx] % (mask + 1)

\* super::calc_ppu_palette_addr: the index into palettes
calc_ppu_palette_addr(addr) ==
    LET i == addr % 32
    IN IF i \in {16, 20, 24, 28} THEN i - 16 ELSE i

\* super::calc_ppu_nametable_addr_with_mirroring: the index into the 2 KiB
\* of nametables
calc_ppu_nametable_addr_with_mirroring(addr, hor_mirroring) ==
    IF hor_mirroring
    THEN Bit(addr, 11) * 1024 + (addr % 1024)
    ELSE addr % 2048

\* nametable_idx of a cartridge that is always four-screen
nametable_idx_never_mirrored(pm, addr) ==
    addr % 4096

\* the index into nametables of a nametable address
nametable_idx(pm, addr) ==
    IF pm.no_mirroring # 1
    THEN calc_ppu_nametable_addr_with_mirroring(addr, pm.hor_mirroring = 1)
    ELSE addr % 4096

\* [ppu_memory, bank, offset, val]: for the pattern tables the CHR bank and
\* the offset in it, with the byte of the CHR ROM of test_ppu_calc_addr
\* (zeroes); the mapper state is not changed
ppu_memory_read(pm, addr) ==
    IF addr >= 16128
    THEN [ppu_memory |-> pm, bank |-> 0,
          offset |-> calc_ppu_palette_addr(addr),
          val |-> byte_at(pm.palettes, calc_ppu_palette_addr(addr))]
    ELSE IF addr >= 8192
    THEN [ppu_memory |-> pm, bank |-> 0,
          offset |-> nametable_idx(pm, addr),
          val |-> byte_at(pm.nametables, nametable_idx(pm, addr))]
    ELSE [ppu_memory |-> pm,
          bank |-> chr_bank_idx(pm, addr),
          offset |-> addr % 1024,
          val |-> byte_at(pm.chr_banks,
                          chr_bank_idx(pm, addr) * 1024 + (addr % 1024))]

\* Mmc3PpuMemory::write with the nametable path falling through into a
\* write of the CHR bank byte that the low 13 address bits select
ppu_memory_write_falling_through(pm, addr, val) ==
    IF addr >= 16128
    THEN [pm EXCEPT !.palettes =
              store_byte(@, calc_ppu_palette_addr(addr), val)]
    ELSE IF addr >= 8192
    THEN [pm EXCEPT !.nametables =
              store_byte(@, nametable_idx(pm, addr) % 4096, val),
                    !.chr_banks =
              store_byte(@, chr_bank_idx(pm, addr % 8192) * 1024
                            + (addr % 1024), val)]
    ELSE pm

\* Mmc3PpuMemory::write: the memory map after the write
ppu_memory_write(pm, addr, val) ==
    IF addr >= 16128
    THEN [pm EXCEPT !.palettes =
              store_byte(@, calc_ppu_palette_addr(addr), val)]
    ELSE IF addr >= 8192
    THEN [pm EXCEPT !.nametables =
              store_byte(@, nametable_idx(pm, addr) % 4096, val)]
    ELSE pm

(***************************************************************************)
(* Ppu::read_register_by_index and Ppu::write_register_by_index            *)
(* (register 4, OAMDATA, needs the OAM and is not among the modelled       *)
(* accesses).  memory is the PPU memory map that the cartridge gives the   *)
(* PPU.                                                                    *)
(***************************************************************************)
\* the address increment that follows a PPUDATA access
increment_after_ppudata(p) ==
    IF ~is_currently_rendering(p)
    THEN increment_vram_addr(p)
    ELSE increment_vram_addr_y(increment_vram_addr_coarse_x(p))

\* PPUDATA read without the read buffer: the byte at v is returned at once
read_ppudata_unbuffered(p, memory) ==
    LET val == ppu_memory_read(memory, get_addr(p.current_vram_addr)).val
    IN [ppu |-> increment_after_ppudata([p EXCEPT !.ppudata_read_buffer = val]),
        val |-> val]

\* PPUDATA read: [ppu, val]
read_ppudata(p, memory) ==
    LET addr == get_addr(p.current_vram_addr)
        q == IF p.current_vram_addr \div 256 = 63
             THEN [ppu |-> [p EXCEPT !.ppudata_read_buffer =
                               ppu_memory_read(memory,
                                               addr - Bit(addr, 12) * 4096).val],
                   val |-> ppu_memory_read(memory, addr).val]
             ELSE [ppu |-> [p EXCEPT !.ppudata_read_buffer =
                               ppu_memory_read(memory, addr).val],
                   val |-> p.ppudata_read_buffer]
    IN [q EXCEPT !.ppu = increment_after_ppudata(@)]

\* the PPUSTATUS read leaves the write toggle as it is
read_register_by_index_keeping_toggle(p, memory, index) ==
    IF index = 1
    THEN [ppu |-> p, val |-> p.ppumask]
    ELSE IF index = 2
    THEN [ppu |-> set_vblank(p, FALSE), val |-> p.ppustatus]
    ELSE IF index = 4
    THEN [ppu |-> p, val |-> byte_at(p.oam, p.oamaddr)]
    ELSE IF index = 7
    THEN read_ppudata(p, memory)
    ELSE [ppu |-> p, val |-> 0]

\* returns [ppu, val]
read_register_by_index(p, memory, index) ==
    IF index = 1
    THEN [ppu |-> p, val |-> p.ppumask]
    ELSE IF index = 2
    THEN LET q == [p EXCEPT !.low_bits_toggle = FALSE]
             status == q.ppustatus
         IN [ppu |-> set_vblank(q, FALSE), val |-> status]
    ELSE IF index = 4
    THEN [ppu |-> p, val |-> byte_at(p.oam, p.oamaddr)]
    ELSE IF index = 7
    THEN read_ppudata(p, memory)
    ELSE [ppu |-> p, val |-> 0]

\* the NMI edge raised without looking at the VBlank flag
write_ppuctrl_ignoring_vblank(m, val) ==
    LET p == [m.ppu EXCEPT
                !.temp_vram_addr = set_nametable_select(@, val % 4),
                !.ppuctrl = val]
    IN [m EXCEPT !.ppu = p,
                 !.nmi = IF is_vblank_nmi_enabled(p) THEN TRUE ELSE @]

\* m = [ppu, nmi, halt]
write_ppuctrl(m, val) ==
    LET p == [m.ppu EXCEPT
                !.temp_vram_addr = set_nametable_select(@, val % 4),
                !.ppuctrl = val]
    IN [m EXCEPT !.ppu = p,
                 !.nmi = IF is_vblank_nmi_enabled(p) /\ is_vblank(p)
                         THEN TRUE ELSE @]

\* (self.fine_x_scroll & !0b111) | fine_x
set_fine_x_scroll(p, fine_x) ==
    [p EXCEPT !.fine_x_scroll = (@ - (@ % 8)) + fine_x]

\* the second write sets coarse y and leaves fine y alone
write_ppuscroll_without_fine_y(p, val) ==
    LET q == IF ~p.low_bits_toggle
             THEN [set_fine_x_scroll(p, val % 8) EXCEPT
                     !.temp_vram_addr = set_coarse_x(@, val \div 8)]
             ELSE [p EXCEPT
                     !.temp_vram_addr = set_coarse_y(@, val \div 8)]
    IN [q EXCEPT !.low_bits_toggle = ~@]

write_ppuscroll(p, val) ==
    LET q == IF ~p.low_bits_toggle
             THEN [set_fine_x_scroll(p, val % 8) EXCEPT
                     !.temp_vram_addr = set_coarse_x(@, val \div 8)]
             ELSE [p EXCEPT
                     !.temp_vram_addr =
                        set_fine_y(set_coarse_y(@, val \div 8), val % 8)]
    IN [q EXCEPT !.low_bits_toggle = ~@]

\* the first write replaces bits 8-13 only: bit 14 of t is kept
write_ppuaddr_keeping_bit_14(p, val) ==
    LET q == IF ~p.low_bits_toggle
             THEN [p EXCEPT !.temp_vram_addr =
                       SetField(@, 8, 6, val % 64)]
             ELSE LET t == (p.temp_vram_addr \div 256) * 256 + val
                  IN [p EXCEPT !.temp_vram_addr = t, !.current_vram_addr = t]
    IN [q EXCEPT !.low_bits_toggle = ~@]

write_ppuaddr(p, val) ==
    LET q == IF ~p.low_bits_toggle
             THEN [p EXCEPT !.temp_vram_addr = (val % 64) * 256 + (@ % 256)]
             ELSE LET t == (p.temp_vram_addr \div 256) * 256 + val
                  IN [p EXCEPT !.temp_vram_addr = t, !.current_vram_addr = t]
    IN [q EXCEPT !.low_bits_toggle = ~@]

\* m = [ppu, nmi, halt, memory]
write_ppudata(m, val) ==
    [m EXCEPT !.memory = ppu_memory_write(@, get_addr(m.ppu.current_vram_addr),
                                          val),
              !.ppu = increment_after_ppudata(@)]

\* write_oamdata that stores the byte while the PPU is rendering, too
write_oamdata_while_rendering(p, val) ==
    [p EXCEPT !.oam = store_byte(@, p.oamaddr, val),
              !.oamaddr = (@ + 1) % 256]

write_oamdata(p, val) ==
    IF is_currently_rendering(p)
    THEN p
    ELSE [p EXCEPT !.oam = store_byte(@, p.oamaddr, val),
                   !.oamaddr = (@ + 1) % 256]

write_register_by_index(m, index, val) ==
    IF index = 0 THEN write_ppuctrl(m, val)
    ELSE IF index = 1 THEN [m EXCEPT !.ppu.ppumask = val]
    ELSE IF index = 2 THEN m
    ELSE IF index = 3 THEN [m EXCEPT !.ppu.oamaddr = val]
    ELSE IF index = 4 THEN [m EXCEPT !.ppu = write_oamdata(@, val)]
    ELSE IF index = 5 THEN [m EXCEPT !.ppu = write_ppuscroll(@, val)]
    ELSE IF index = 6 THEN [m EXCEPT !.ppu = write_ppuaddr(@, val)]
    ELSE IF index = 7 THEN write_ppudata(m, val)
    ELSE m

(***************************************************************************)
(* Ppu::write_oamdma (d = [m, cycle_count, lags, start_addr]).  The bytes   *)
(* are read with self.memory.read, the memory map of the PPU; the pages    *)
(* 0x00-0x3F lie in its address range.                                     *)
(***************************************************************************)
\* ppu.cycle_count - 3 * cpu.cycle_count, recorded when catch_up returned
lag_of(m, cpu_cycle_count) == m.ppu.cycle_count - 3 * cpu_cycle_count

\* the state of the transfer after the catch_up of an iteration returned m2
oamdma_caught_up(d, m2, cycle_count) ==
    [m |-> m2, cycle_count |-> cycle_count,
     lags |-> IF m2.halt = "running"
              THEN d.lags \cup {lag_of(m2, cycle_count)}
              ELSE d.lags,
     start_addr |-> d.start_addr]

oamdma_iteration(d, i) ==
    IF d.m.halt # "running"
    THEN d
    ELSE LET byte == ppu_memory_read(d.m.memory, d.start_addr + i).val
             m1 == [d.m EXCEPT !.ppu.oam = store_byte(@, d.m.ppu.oamaddr, byte),
                               !.ppu.oamaddr = (@ + 1) % 256]
             cycle_count == d.cycle_count + 2
         IN IF i % 4 = 0
            THEN oamdma_caught_up(d, catch_up(m1, cycle_count), cycle_count)
            ELSE [d EXCEPT !.m = m1, !.cycle_count = cycle_count]

\* iterations lo .. hi - 1 of the for loop
RECURSIVE oamdma_loop(_, _, _)
oamdma_loop(d, lo, hi) ==
    IF d.m.halt # "running"
    THEN d
    ELSE IF hi - lo = 1
    THEN oamdma_iteration(d, lo)
    ELSE oamdma_loop(oamdma_loop(d, lo, lo + ((hi - lo) \div 2)),
                     lo + ((hi - lo) \div 2), hi)

\* one cycle after the loop whatever the parity
oamdma_end_without_parity(e) ==
    IF e.m.halt # "running"
    THEN e
    ELSE [e EXCEPT !.cycle_count = @ + 1]

\* cpu.cycle_count += 1 + (cpu.cycle_count % 2) after the loop
oamdma_end(e) ==
    IF e.m.halt # "running"
    THEN e
    ELSE [e EXCEPT !.cycle_count = @ + 1 + (@ % 2)]

write_oamdma(d) == oamdma_end(oamdma_loop(d, 0, 256))

(***************************************************************************)
(* Oam (ppu/oam.rs): primary and secondary OAM as byte arrays, the sprite  *)
(* data of the scanline being drawn, and the sprite functions.             *)
(***************************************************************************)
\* Oam::default
OamDefault ==
    [primary |-> <<>>,
     secondary |-> <<>>,
     current_sprites_data |->
         [i \in 0..7 |-> [x |-> 0, tile_bitplane_lo |-> 0,
                          tile_bitplane_hi |-> 0, attributes |-> 0]],
     current_sprite |-> 0,
     sprites_found |-> 0]

\* the OamEntry at the byte index of an OAM
get_sprite_unchecked(bytes, index) ==
    [y |-> byte_at(bytes, index),
     tile_index |-> byte_at(bytes, index + 1),
     attributes |-> byte_at(bytes, index + 2),
     x |-> byte_at(bytes, index + 3)]

\* attributes & 0b11100011
clear_bits_2_to_4(attributes) ==
    attributes - ((attributes \div 4) % 8) * 4

eval_next_scanline_sprite(o, current_scanline, current_scanline_dot) ==
    LET sprite == get_sprite_unchecked(o.primary, o.current_sprite)
        in_range == ((current_scanline - sprite.y) % 65536) < 8
        cleared == clear_bits_2_to_4(sprite.attributes)
        attributes == IF o.current_sprite = 0
                      THEN OrBit(cleared, 3)
                      ELSE cleared
        o1 == IF o.sprites_found < 8 /\ in_range
              THEN [o EXCEPT
                       !.secondary =
                           store_byte(store_byte(store_byte(store_byte(@,
                               4 * o.sprites_found, sprite.y),
                               4 * o.sprites_found + 1, sprite.tile_index),
                               4 * o.sprites_found + 2, attributes),
                               4 * o.sprites_found + 3, sprite.x),
                       !.sprites_found = @ + 1]
              ELSE o
    IN [o1 EXCEPT !.current_sprite = (@ + 4) % 256]

\* memory.get_pattern_tables(): the 8 KiB of pattern tables as bytes
get_pattern_tables(memory) == memory.chr_banks

\* [oam, panicked]: the Oam after the call, or the failed assertion
fetch_next_scanline_sprite_data(o, current_scanline, current_scanline_dot, pattern_table_addr, memory) ==
    LET slot == o.current_sprite \div 4
    IN IF slot < o.sprites_found
       THEN LET sprite == get_sprite_unchecked(o.secondary, o.current_sprite)
                tile == pattern_table_addr + sprite.tile_index * 16
                y_offset == current_scanline - sprite.y
                flipped == Bit(sprite.attributes, 7) # 0
                lo == byte_at(get_pattern_tables(memory),
                              IF flipped THEN tile + 7 - y_offset
                                         ELSE tile + y_offset)
                hi == byte_at(get_pattern_tables(memory),
                              IF flipped THEN tile + 15 - y_offset
                                         ELSE tile + 8 + y_offset)
            IN IF y_offset \in 0..7 /\ slot \in 0..7
               THEN [oam |-> [o EXCEPT
                         !.current_sprites_data[slot] =
                             [x |-> sprite.x,
                              tile_bitplane_lo |-> lo,
                              tile_bitplane_hi |-> hi,
                              attributes |-> sprite.attributes],
                         !.current_sprite = (@ + 4) % 256],
                     panicked |-> FALSE]
               ELSE [oam |-> o, panicked |-> TRUE]
       ELSE IF slot \in 0..7
       THEN [oam |-> [o EXCEPT
                 !.current_sprites_data[slot] =
                     [x |-> 0, tile_bitplane_lo |-> 0,
                      tile_bitplane_hi |-> 0, attributes |-> 4]],
             panicked |-> FALSE]
       ELSE [oam |-> o, panicked |-> TRUE]

\* the SpriteInfo of the SpriteRenderData data at the dot
sprite_info(data, current_scanline_dot) ==
    LET tile_offset == (current_scanline_dot - data.x) % 65536
        shift_amt == IF Bit(data.attributes, 6) # 0
                     THEN tile_offset
                     ELSE 7 - tile_offset
    IN [color_index |-> Bit(data.tile_bitplane_lo, shift_amt)
                          + 2 * Bit(data.tile_bitplane_hi, shift_amt),
        palette_index |-> (data.attributes % 4) + 4,
        is_in_front |-> ((data.attributes \div 32) % 2) * 32 # 1,
        is_sprite_zero |-> Bit(data.attributes, 3) = 1]

\* the slots before the first one with attribute bit 2 set whose sprite
\* covers the dot
sprites_at_dot(o, current_scanline_dot) ==
    {i \in 0..7 :
        /\ \A j \in 0..i : Bit(o.current_sprites_data[j].attributes, 2) = 0
        /\ o.current_sprites_data[i].x < 249
        /\ (current_scanline_dot - o.current_sprites_data[i].x) % 65536 < 8}

\* get_sprite_at_dot_info that reads all eight slots
get_sprite_at_dot_info_past_sentinel(o, current_scanline_dot) ==
    LET found == {i \in 0..7 :
                    /\ o.current_sprites_data[i].x < 249
                    /\ (current_scanline_dot
                          - o.current_sprites_data[i].x) % 65536 < 8}
    IN IF found = {}
       THEN [some |-> FALSE]
       ELSE LET slot == CHOOSE i \in found : \A j \in found : i <= j
            IN [some |-> TRUE, slot |-> slot,
                info |-> sprite_info(o.current_sprites_data[slot],
                                     current_scanline_dot)]

\* Option<SpriteInfo>, with the slot of the sprite found
get_sprite_at_dot_info(o, current_scanline_dot) ==
    LET found == sprites_at_dot(o, current_scanline_dot)
    IN IF found = {}
       THEN [some |-> FALSE]
       ELSE LET slot == CHOOSE i \in found : \A j \in found : i <= j
            IN [some |-> TRUE, slot |-> slot,
                info |-> sprite_info(o.current_sprites_data[slot],
                                     current_scanline_dot)]

(***************************************************************************)
(* BgDrawState, in its two implementations: ppu/bg_state.rs reads through  *)
(* the PPU bus, ppu/draw_state/bg.rs reads the memory of the Ppu and the   *)
(* raw pattern tables.  TileBitPlanes is the pair <<.0[0], .0[1]>>.        *)
(***************************************************************************)
bg_state_shift_tile_data_by_8(s) ==
    [tile_bitplanes_hi |-> <<0, s.tile_bitplanes_hi[1]>>,
     tile_bitplanes_lo |-> <<0, s.tile_bitplanes_lo[1]>>,
     tile_palette_indices |-> (s.tile_palette_indices % 4) * 4]

bg_state_fetch_current_tile_data(s, background_pattern_table_addr, current_vram_addr, memory) ==
    LET addr == (get_addr(current_vram_addr) % 4096) + 8192
        tile_index == ppu_memory_read(memory, addr).val
        tile_addr == background_pattern_table_addr + tile_index * 16
        fine_y == get_fine_y(current_vram_addr)
        bg_bitplane_lo == ppu_memory_read(memory, tile_addr + fine_y).val
        bg_bitplane_hi == ppu_memory_read(memory, tile_addr + 8 + fine_y).val
        coarse_y == get_coarse_y(current_vram_addr)
        coarse_x == get_coarse_x(current_vram_addr)
        attribute_addr ==
            9152 + get_nametable_select(current_vram_addr) * 1024
                 + (((coarse_y * 2) % 64) - ((coarse_y * 2) % 8))
                 + (coarse_x \div 4)
        attribute == ppu_memory_read(memory, attribute_addr).val
        shift_amt == Bit(coarse_y, 1) * 4 + Bit(coarse_x, 1) * 2
        bg_palette_idx == (attribute \div Pow2(shift_amt)) % 4
    IN [tile_bitplanes_hi |-> <<bg_bitplane_hi, s.tile_bitplanes_hi[2]>>,
        tile_bitplanes_lo |-> <<bg_bitplane_lo, s.tile_bitplanes_lo[2]>>,
        tile_palette_indices |->
            s.tile_palette_indices - (s.tile_palette_indices % 4)
              + (IF Bit(s.tile_palette_indices, 1) = 1
                    \/ Bit(bg_palette_idx, 1) = 1 THEN 2 ELSE 0)
              + (IF Bit(s.tile_palette_indices, 0) = 1
                    \/ Bit(bg_palette_idx, 0) = 1 THEN 1 ELSE 0)]

\* the u16 of the two bytes shifted left by 8, little-endian
draw_state_shift_tile_data_by_8(s) ==
    LET shifted(planes) ==
            LET u == ((planes[1] + 256 * planes[2]) * 256) % 65536
            IN <<u % 256, u \div 256>>
    IN [tile_bitplanes_hi |-> shifted(s.tile_bitplanes_hi),
        tile_bitplanes_lo |-> shifted(s.tile_bitplanes_lo),
        tile_palette_indices |-> (s.tile_palette_indices % 4) * 4]

draw_state_fetch_current_tile_data(s, p, memory) ==
    LET v == p.current_vram_addr
        addr == IF Bit(get_addr(v), 13) = 1
                THEN get_addr(v)
                ELSE get_addr(v) + 8192
        tile_index == ppu_memory_read(memory, addr).val
        background_table_addr == Bit(p.ppuctrl, 4) * 4096
        current_bg_tile == background_table_addr + tile_index * 16
        coarse_y == get_coarse_y(v)
        coarse_x == get_coarse_x(v)
        attribute_addr ==
            9152 + get_nametable_select(v) * 1024
                 + (((coarse_y * 2) % 64) - ((coarse_y * 2) % 8))
                 + (coarse_x \div 4)
        attribute == ppu_memory_read(memory, attribute_addr).val
        shift_amt == Bit(coarse_y, 1) * 4 + Bit(coarse_x, 1) * 2
        bg_palette_idx == (attribute \div Pow2(shift_amt)) % 4
        fine_y == get_fine_y(v)
        bg_bitplane_lo ==
            byte_at(get_pattern_tables(memory), current_bg_tile + fine_y)
        bg_bitplane_hi ==
            byte_at(get_pattern_tables(memory), current_bg_tile + 8 + fine_y)
    IN [tile_bitplanes_hi |-> <<bg_bitplane_hi, s.tile_bitplanes_hi[2]>>,
        tile_bitplanes_lo |-> <<bg_bitplane_lo, s.tile_bitplanes_lo[2]>>,
        tile_palette_indices |->
            s.tile_palette_indices - (s.tile_palette_indices % 4)
              + (IF Bit(s.tile_palette_indices, 1) = 1
                    \/ Bit(bg_palette_idx, 1) = 1 THEN 2 ELSE 0)
              + (IF Bit(s.tile_palette_indices, 0) = 1
                    \/ Bit(bg_palette_idx, 0) = 1 THEN 1 ELSE 0)]

(***************************************************************************)
(* State after construction: Ppu::new, Mmc3CpuMemory::new, Cpu::default.   *)
(***************************************************************************)
\* Ppu::new
PpuNew ==
    [cycle_count |-> 0,
     ppuctrl |-> 0,
     ppumask |-> 0,
     ppustatus |-> 0,
     oamaddr |-> 0,
     oam |-> <<>>,
     sprite_oam |-> OamDefault,
     bg_state |-> [tile_bitplanes_hi |-> <<0, 0>>,
                   tile_bitplanes_lo |-> <<0, 0>>,
                   tile_palette_indices |-> 0],
     draw_state_bg |-> [tile_bitplanes_hi |-> <<0, 0>>,
                        tile_bitplanes_lo |-> <<0, 0>>,
                        tile_palette_indices |-> 0],
     low_bits_toggle |-> FALSE,
     current_vram_addr |-> 0,
     temp_vram_addr |-> 0,
     fine_x_scroll |-> 0,
     ppudata_read_buffer |-> 0,
     current_scanline |-> -1,
     current_scanline_dot |-> 0,
     even_frame |-> TRUE]

\* the Mmc3PpuMemory of a cartridge of chr_banks_len 1 KiB CHR banks (a CHR
\* ROM of zeroes) with the given mirroring
Mmc3PpuMemoryNew(chr_banks_len, mirroring) ==
    [r |-> [i \in 0..7 |-> 0],
     chr_banks |-> <<>>,
     nametables |-> <<>>,
     palettes |-> <<>>,
     irq_counter |-> 0,
     prev_a12_state |-> <<FALSE, 0>>,
     hor_mirroring |-> IF mirroring = "Hor" THEN 1 ELSE 0,
     no_mirroring |-> IF mirroring = "FourScreen" THEN 1 ELSE 0,
     a12_invert |-> 0,
     chr_banks_len |-> chr_banks_len]

\* the machine built around the PPU p, the PPU memory map pm and
\* prg_banks_len 8 KiB PRG banks
InitMapper(prg_banks_len, pm, p) ==
    /\ cpu = [cycle_count |-> 0, nmi |-> FALSE, irq |-> 0]
    /\ ppu = p
    /\ mmc3 = [bank_register_to_update |-> 0,
               prg_banks_swapped |-> 0,
               prg_ram_enable |-> 0,
               prg_ram_protect |-> 0,
               irq_reload |-> 0,
               irq_enable |-> 0,
               irq_latch |-> 0,
               irq_counter |-> 0,
               prg_banks_len |-> prg_banks_len,
               prg_ram |-> <<>>,
               internal_ram |-> <<>>]
    /\ ppu_memory = pm
    /\ halt = "running"
    /\ bus = [op |-> "init", addr |-> 0, val |-> 0]
    /\ lag = {}

\* the machine built around the PPU p and a cartridge of prg_banks_len 8 KiB
\* PRG banks and chr_banks_len 1 KiB CHR banks, horizontally mirrored
InitMachine(prg_banks_len, chr_banks_len, p) ==
    InitMapper(prg_banks_len, Mmc3PpuMemoryNew(chr_banks_len, "Hor"), p)

\* the machine at power-on
InitCartridge(prg_banks_len, chr_banks_len) ==
    InitMachine(prg_banks_len, chr_banks_len, PpuNew)

Init == InitCartridge(PrgBanks, ChrBanks)

(***************************************************************************)
(* The drivers of the CPU.  ExecInstructions is the loop of main(): the    *)
(* CPU executes instructions that do not touch the bus regions modelled    *)
(* here, so only its cycle counter advances.  RunFrameLoop is the loop of  *)
(* the test harness, which calls ppu.catch_up after exec_instruction; the  *)
(* iterations of Ppu::step do not depend on the target, so catching up     *)
(* after each of several instructions leaves the PPU where one catch_up    *)
(* after the last of them leaves it.                                       *)
(***************************************************************************)
Machine ==
    [ppu |-> ppu, nmi |-> cpu.nmi, halt |-> halt, memory |-> ppu_memory]

ExecInstructions(d) ==
    /\ halt = "running"
    /\ cpu.cycle_count + d <= MaxBusCycle
    /\ cpu' = [cpu EXCEPT !.cycle_count = @ + d]
    /\ bus' = [op |-> "exec", addr |-> 0, val |-> d]
    /\ lag' = {}
    /\ UNCHANGED <<ppu, mmc3, ppu_memory, halt>>

\* the state after catch_up returned m1 at CPU cycle cycle_count
FrameLoopCaughtUp(m1, cycle_count, d) ==
    /\ ppu' = m1.ppu
    /\ cpu' = [cpu EXCEPT !.cycle_count = cycle_count, !.nmi = m1.nmi]
    /\ halt' = m1.halt
    /\ lag' = IF m1.halt = "running" THEN {lag_of(m1, cycle_count)} ELSE {}
    /\ bus' = [op |-> "run", addr |-> 0, val |-> d]

RunFrameLoop(d) ==
    /\ halt = "running"
    /\ cpu.cycle_count + d <= MaxCpuCycle
    /\ FrameLoopCaughtUp(catch_up(Machine, cpu.cycle_count + d),
                         cpu.cycle_count + d, d)
    /\ UNCHANGED <<mmc3, ppu_memory>>

\* the CPU takes a pending NMI: the edge is cleared on dispatch
CpuServiceNmi ==
    /\ halt = "running"
    /\ cpu.nmi
    /\ cpu' = [cpu EXCEPT !.nmi = FALSE]
    /\ bus' = [op |-> "nmi", addr |-> 0, val |-> 0]
    /\ lag' = {}
    /\ UNCHANGED <<ppu, mmc3, ppu_memory, halt>>

(***************************************************************************)
(* Mmc3CpuMemory::read                                                     *)
(***************************************************************************)
is_0_to_1fff(addr) == addr \in 0..8191
is_2000_to_3fff(addr) == addr \in 8192..16383
is_6000_to_7fff(addr) == addr \in 24576..32767
is_8000_to_9fff(addr) == addr \in 32768..40959
is_a000_to_bfff(addr) == addr \in 40960..49151
is_c000_to_dfff(addr) == addr \in 49152..57343
is_e000_to_ffff(addr) == addr \in 57344..65535

\* ppu.read_register_by_index(addr & 7) on the PPU m1 that catch_up returned
ReadPpuRegister(m1, addr) ==
    LET r == read_register_by_index(m1.ppu, m1.memory, addr % 8)
        returned == m1.halt = "running"
    IN /\ ppu' = IF returned THEN r.ppu ELSE m1.ppu
       /\ cpu' = [cpu EXCEPT !.nmi = m1.nmi]
       /\ halt' = m1.halt
       /\ lag' = IF returned THEN {lag_of(m1, cpu.cycle_count)} ELSE {}
       /\ bus' = [op |-> "read", addr |-> addr,
                  val |-> IF returned THEN r.val ELSE 0]

\* the register read applied to the PPU as it is, without catch_up
CpuRead_without_catch_up(addr) ==
    /\ halt = "running"
    /\ is_2000_to_3fff(addr)
    /\ ReadPpuRegister(Machine, addr)
    /\ UNCHANGED <<mmc3, ppu_memory>>

\* the 8 KiB bank of every window mapped from r[6] and the second to last
\* bank, whatever prg_banks_swapped is
prg_bank_idx_never_swapped(mm, pm, addr) ==
    LET n_banks == mm.prg_banks_len
        mask == (n_banks - 1) % 256
    IN IF is_8000_to_9fff(addr) THEN pm.r[6] % (mask + 1)
       ELSE IF is_a000_to_bfff(addr) THEN pm.r[7] % (mask + 1)
       ELSE IF is_c000_to_dfff(addr) THEN n_banks - 2
       ELSE n_banks - 1

\* the bank registers used as they are, without the mask
prg_bank_idx_unmasked(mm, pm, addr) ==
    IF is_e000_to_ffff(addr) THEN mm.prg_banks_len - 1
    ELSE IF is_a000_to_bfff(addr) THEN pm.r[7]
    ELSE IF is_8000_to_9fff(addr) = (mm.prg_banks_swapped = 1)
    THEN mm.prg_banks_len - 2
    ELSE pm.r[6]

\* the index into self.prg_banks of a read of 0x8000-0xFFFF
\* (x & (n_banks - 1) is x % n_banks, n_banks being a power of two)
prg_bank_idx(mm, pm, addr) ==
    LET n_banks == mm.prg_banks_len
        mask == (n_banks - 1) % 256
    IN IF is_8000_to_9fff(addr)
       THEN IF mm.prg_banks_swapped = 1
            THEN n_banks - 2
            ELSE pm.r[6] % (mask + 1)
       ELSE IF is_a000_to_bfff(addr)
       THEN pm.r[7] % (mask + 1)
       ELSE IF is_c000_to_dfff(addr)
       THEN IF mm.prg_banks_swapped = 1
            THEN pm.r[6] % (mask + 1)
            ELSE n_banks - 2
       ELSE n_banks - 1

\* the byte of PRG ROM that a read of 0x8000-0xFFFF returns, named by its
\* place in the ROM image the banks were cut from:
\* self.prg_banks[bank][addr & !0xE000] is prg_rom[bank * 0x2000 + offset]
prg_rom_read(mm, pm, addr) ==
    prg_bank_idx(mm, pm, addr) * 8192 + (addr % 8192)

\* a read of PRG ROM: bus.val is the place of the byte that is returned
ReadPrgRom(addr) ==
    /\ bus' = [op |-> "read", addr |-> addr,
               val |-> prg_rom_read(mmc3, ppu_memory, addr)]
    /\ lag' = {}
    /\ UNCHANGED <<cpu, ppu, mmc3, ppu_memory, halt>>

\* a read of 0x6000-0x7FFF: the PRG RAM byte if PRG RAM is enabled; if not,
\* no other branch of the function takes the address and it returns 0
ReadPrgRam(addr) ==
    /\ bus' = [op |-> "read", addr |-> addr,
               val |-> IF mmc3.prg_ram_enable = 1
                       THEN byte_at(mmc3.prg_ram, addr % 8192)
                       ELSE 0]
    /\ lag' = {}
    /\ UNCHANGED <<cpu, ppu, mmc3, ppu_memory, halt>>

\* a read of 0x0000-0x1FFF: the internal RAM, mirrored every 0x800
ReadInternalRam(addr) ==
    /\ bus' = [op |-> "read", addr |-> addr,
               val |-> byte_at(mmc3.internal_ram, addr % 2048)]
    /\ lag' = {}
    /\ UNCHANGED <<cpu, ppu, mmc3, ppu_memory, halt>>

CpuRead(addr) ==
    /\ halt = "running"
    /\ IF is_0_to_1fff(addr)
       THEN ReadInternalRam(addr)
       ELSE IF is_2000_to_3fff(addr)
       THEN /\ ReadPpuRegister(catch_up(Machine, cpu.cycle_count), addr)
            /\ UNCHANGED <<mmc3, ppu_memory>>
       ELSE IF is_6000_to_7fff(addr)
       THEN ReadPrgRam(addr)
       ELSE IF addr \in 32768..65535
       THEN ReadPrgRom(addr)
       ELSE FALSE

(***************************************************************************)
(* Mmc3CpuMemory::write                                                    *)
(***************************************************************************)
\* ppu.write_register_by_index(addr & 7, val) on the PPU m1 that catch_up
\* returned
WritePpuRegister(m1, addr, val) ==
    LET returned == m1.halt = "running"
        m2 == IF returned
              THEN write_register_by_index(m1, addr % 8, val)
              ELSE m1
    IN /\ ppu' = m2.ppu
       /\ cpu' = [cpu EXCEPT !.nmi = m2.nmi]
       /\ halt' = m2.halt
       /\ lag' = IF returned THEN {lag_of(m1, cpu.cycle_count)} ELSE {}
       /\ bus' = [op |-> "write", addr |-> addr, val |-> val]
       /\ ppu_memory' = m2.memory
       /\ UNCHANGED mmc3

\* the byte stored whatever prg_ram_protect is
WritePrgRam_ignoring_protect(addr, val) ==
    /\ mmc3' = IF mmc3.prg_ram_enable = 1
               THEN [mmc3 EXCEPT !.prg_ram = store_byte(@, addr % 8192, val)]
               ELSE mmc3
    /\ UNCHANGED <<cpu, ppu, ppu_memory, halt>>

\* a write to 0x6000-0x7FFF: stored if PRG RAM is enabled and not protected;
\* if not, no other branch of the function takes the address
WritePrgRam(addr, val) ==
    /\ mmc3' = IF mmc3.prg_ram_enable = 1 /\ mmc3.prg_ram_protect # 1
               THEN [mmc3 EXCEPT !.prg_ram = store_byte(@, addr % 8192, val)]
               ELSE mmc3
    /\ UNCHANGED <<cpu, ppu, ppu_memory, halt>>

\* a write to 0x0000-0x1FFF: the internal RAM
WriteInternalRam(addr, val) ==
    /\ mmc3' = [mmc3 EXCEPT !.internal_ram = store_byte(@, addr % 2048, val)]
    /\ UNCHANGED <<cpu, ppu, ppu_memory, halt>>

WriteBankSelect(addr, val) ==
    /\ IF addr % 2 = 0
       THEN /\ mmc3' = [mmc3 EXCEPT !.bank_register_to_update = val % 8,
                                    !.prg_banks_swapped = Bit(val, 6)]
            /\ ppu_memory' = [ppu_memory EXCEPT !.a12_invert = Bit(val, 7)]
       ELSE /\ ppu_memory' =
                 [ppu_memory EXCEPT !.r[mmc3.bank_register_to_update] = val]
            /\ UNCHANGED mmc3
    /\ UNCHANGED <<cpu, ppu, halt>>

WriteMirroringRam(addr, val) ==
    /\ IF addr % 2 = 0
       THEN /\ ppu_memory' = [ppu_memory EXCEPT !.hor_mirroring = val % 2]
            /\ UNCHANGED mmc3
       ELSE /\ mmc3' = [mmc3 EXCEPT !.prg_ram_protect = Bit(val, 6),
                                    !.prg_ram_enable = Bit(val, 7)]
            /\ UNCHANGED ppu_memory
    /\ UNCHANGED <<cpu, ppu, halt>>

WriteIrqLatchReload(addr, val) ==
    /\ mmc3' = IF addr % 2 = 0
               THEN [mmc3 EXCEPT !.irq_latch = val]
               ELSE [mmc3 EXCEPT !.irq_reload = 1]
    /\ UNCHANGED <<cpu, ppu, ppu_memory, halt>>

WriteIrqEnable(addr, val) ==
    /\ addr % 2 = 1 => cpu.irq > -MaxIrqDeassert
    /\ mmc3' = [mmc3 EXCEPT !.irq_enable = (addr % 256) % 2]
    /\ cpu' = IF addr % 2 = 1 THEN [cpu EXCEPT !.irq = @ - 1] ELSE cpu
    /\ UNCHANGED <<ppu, ppu_memory, halt>>

\* the state after super::write_oamdma returned d1
OamDmaDone(d1, addr, val) ==
    /\ ppu' = d1.m.ppu
    /\ cpu' = [cpu EXCEPT !.nmi = d1.m.nmi, !.cycle_count = d1.cycle_count]
    /\ halt' = d1.m.halt
    /\ lag' = d1.lags
    /\ bus' = [op |-> "write", addr |-> addr, val |-> val]

\* super::write_oamdma on the PPU m1 that catch_up returned
OamDmaStart(m1, addr, val) ==
    IF m1.halt = "running"
    THEN OamDmaDone(write_oamdma([m |-> m1, cycle_count |-> cpu.cycle_count,
                                  lags |-> {lag_of(m1, cpu.cycle_count)},
                                  start_addr |-> val * 256]),
                    addr, val)
    ELSE OamDmaDone([m |-> m1, cycle_count |-> cpu.cycle_count, lags |-> {},
                     start_addr |-> val * 256],
                    addr, val)

WriteOamDma(addr, val) ==
    /\ cpu.cycle_count + 514 <= MaxBusCycle
    /\ OamDmaStart(catch_up(Machine, cpu.cycle_count), addr, val)
    /\ UNCHANGED <<mmc3, ppu_memory>>

\* label of a write that does not reach the PPU
MapperWriteLabel(addr, val) ==
    /\ bus' = [op |-> "write", addr |-> addr, val |-> val]
    /\ lag' = {}

CpuWrite(addr, val) ==
    /\ halt = "running"
    /\ IF is_0_to_1fff(addr)
       THEN WriteInternalRam(addr, val) /\ MapperWriteLabel(addr, val)
       ELSE IF is_2000_to_3fff(addr)
       THEN WritePpuRegister(catch_up(Machine, cpu.cycle_count), addr, val)
       ELSE IF is_6000_to_7fff(addr)
       THEN WritePrgRam(addr, val) /\ MapperWriteLabel(addr, val)
       ELSE IF is_8000_to_9fff(addr)
       THEN WriteBankSelect(addr, val) /\ MapperWriteLabel(addr, val)
       ELSE IF is_a000_to_bfff(addr)
       THEN WriteMirroringRam(addr, val) /\ MapperWriteLabel(addr, val)
       ELSE IF is_c000_to_dfff(addr)
       THEN WriteIrqLatchReload(addr, val) /\ MapperWriteLabel(addr, val)
       ELSE IF is_e000_to_ffff(addr)
       THEN WriteIrqEnable(addr, val) /\ MapperWriteLabel(addr, val)
       ELSE IF addr = 16404
       THEN WriteOamDma(addr, val)
       ELSE FALSE

(***************************************************************************)
(* A PPU-side read of the cartridge: Mmc3PpuMemory::read.                  *)
(***************************************************************************)
PpuBusRead(addr) ==
    /\ halt = "running"
    /\ addr \in 0..8191
    /\ LET r == ppu_memory_read(ppu_memory, addr)
       IN /\ ppu_memory' = r.ppu_memory
          /\ bus' = [op |-> "ppu_read", addr |-> addr,
                     val |-> r.bank * 1024 + r.offset]
    /\ lag' = {}
    /\ UNCHANGED <<cpu, ppu, mmc3, halt>>

(***************************************************************************)
(* PPU-side accesses of the nametables: Mmc3PpuMemory::write, and          *)
(* Mmc3PpuMemory::read with the byte it returns.                           *)
(***************************************************************************)
PpuBusWrite(addr, val) ==
    /\ halt = "running"
    /\ ppu_memory' = ppu_memory_write(ppu_memory, addr, val)
    /\ bus' = [op |-> "ppu_write", addr |-> addr, val |-> val]
    /\ lag' = {}
    /\ UNCHANGED <<cpu, ppu, mmc3, halt>>

PpuBusReadByte(addr) ==
    /\ halt = "running"
    /\ LET r == ppu_memory_read(ppu_memory, addr)
       IN /\ ppu_memory' = r.ppu_memory
          /\ bus' = [op |-> "ppu_read_byte", addr |-> addr, val |-> r.val]
    /\ lag' = {}
    /\ UNCHANGED <<cpu, ppu, mmc3, halt>>

(***************************************************************************)
(* The sprite functions of Oam through a scanline: the 64 sprites of the   *)
(* primary OAM are evaluated on dots 65..254, one every 3 dots; the 8      *)
(* slots of the sprite buffer are fetched on dots 257..313, one every 8    *)
(* dots; evaluation starts over on the next scanline with current_sprite   *)
(* and sprites_found cleared; the buffer is read for a dot once it is      *)
(* fetched, before the next evaluation begins.                             *)
(***************************************************************************)
EvalNextScanlineSprite ==
    /\ halt = "running"
    /\ ppu.current_scanline_dot \in 65..254
    /\ ppu' = [ppu EXCEPT
                  !.sprite_oam = eval_next_scanline_sprite(
                      @, ppu.current_scanline, ppu.current_scanline_dot),
                  !.current_scanline_dot = @ + 3]
    /\ bus' = [op |-> "eval_next_scanline_sprite",
               addr |-> ppu.current_scanline_dot, val |-> 0]
    /\ lag' = {}
    /\ UNCHANGED <<cpu, mmc3, ppu_memory, halt>>

FetchNextScanlineSpriteData ==
    /\ halt = "running"
    /\ ppu.current_scanline_dot \in 257..313
    /\ LET r == fetch_next_scanline_sprite_data(
                    ppu.sprite_oam, ppu.current_scanline,
                    ppu.current_scanline_dot,
                    Bit(ppu.ppuctrl, 3) * 4096, ppu_memory)
       IN /\ ppu' = [ppu EXCEPT !.sprite_oam = r.oam,
                                !.current_scanline_dot = @ + 8]
          /\ halt' = IF r.panicked THEN "panicked" ELSE halt
    /\ bus' = [op |-> "fetch_next_scanline_sprite_data",
               addr |-> ppu.current_scanline_dot, val |-> 0]
    /\ lag' = {}
    /\ UNCHANGED <<cpu, mmc3, ppu_memory>>

StartSpriteEvaluation ==
    /\ halt = "running"
    /\ ppu.current_scanline_dot = 321
    /\ ppu.current_scanline < MaxSpriteScanline
    /\ ppu' = [ppu EXCEPT !.sprite_oam.current_sprite = 0,
                          !.sprite_oam.sprites_found = 0,
                          !.current_scanline = @ + 1,
                          !.current_scanline_dot = 65]
    /\ bus' = [op |-> "start", addr |-> 0, val |-> 0]
    /\ lag' = {}
    /\ UNCHANGED <<cpu, mmc3, ppu_memory, halt>>

GetSpriteAtDotInfo(dot) ==
    /\ halt = "running"
    /\ ppu.current_scanline_dot \in {65, 321}
    /\ bus' = [op |-> "get_sprite_at_dot_info", addr |-> dot,
               val |-> get_sprite_at_dot_info(ppu.sprite_oam, dot)]
    /\ lag' = {}
    /\ UNCHANGED <<cpu, ppu, mmc3, ppu_memory, halt>>

(***************************************************************************)
(* A background tile fetch: shift_tile_data_by_8 followed by               *)
(* fetch_current_tile_data, in both implementations of BgDrawState.        *)
(***************************************************************************)
FetchCurrentTileData ==
    /\ halt = "running"
    /\ ppu' = [ppu EXCEPT
                  !.bg_state =
                      bg_state_fetch_current_tile_data(
                          bg_state_shift_tile_data_by_8(@),
                          Bit(ppu.ppuctrl, 4) * 4096,
                          ppu.current_vram_addr, ppu_memory),
                  !.draw_state_bg =
                      draw_state_fetch_current_tile_data(
                          draw_state_shift_tile_data_by_8(@),
                          ppu, ppu_memory)]
    /\ bus' = [op |-> "fetch_current_tile_data",
               addr |-> ppu.current_vram_addr, val |-> 0]
    /\ lag' = {}
    /\ UNCHANGED <<cpu, mmc3, ppu_memory, halt>>

(***************************************************************************)
(* Specifications.                                                         *)
(***************************************************************************)
\* numbers of CPU cycles the frame loop runs between two bus accesses
CpuAdvances == {4587}

\* PPUMASK and PPUSCROLL writes of the CPU: <<address, value>>
RenderWrites == {<<8193, 8>>, <<8193, 0>>, <<8197, 3>>}

\* A frame and the start of the next one, with rendering switched on and
\* off and the fine scroll changed between the runs of the CPU.
Next ==
    \/ \E d \in CpuAdvances : RunFrameLoop(d)
    \/ \E w \in RenderWrites : CpuWrite(w[1], w[2])

Spec == Init /\ [][Next]_vars

\* numbers of CPU cycles the frame loop runs between two bus accesses
NmiAdvances == {2293}

\* PPUCTRL writes of the CPU: <<address, value>>
CtrlWrites == {<<8192, 131>>, <<8192, 0>>}

\* PPUSTATUS reads of the CPU
StatusReads == {8194}

\* A frame and the start of the next one, with PPUCTRL written, PPUSTATUS
\* read and the NMI taken between the runs of the CPU.
NextNmi ==
    \/ \E d \in NmiAdvances : RunFrameLoop(d)
    \/ \E a \in StatusReads : CpuRead(a)
    \/ \E w \in CtrlWrites : CpuWrite(w[1], w[2])
    \/ CpuServiceNmi

SpecNmi == Init /\ [][NextNmi]_vars

\* numbers of CPU cycles executed between two bus accesses
ExecAdvances == {113}

\* PPU register reads of the CPU ($2002 and its mirror $3FFA)
BusReads == {8194, 16378}

\* PPU register writes ($2001, the mirror $3FFD of $2005) and OAMDMA
BusWrites == {<<8193, 8>>, <<16381, 3>>, <<16404, 2>>}

\* The instruction loop of main(): the PPU is stepped by the bus accesses
\* only.
NextBus ==
    \/ \E d \in ExecAdvances : ExecInstructions(d)
    \/ \E a \in BusReads : CpuRead(a)
    \/ \E w \in BusWrites : CpuWrite(w[1], w[2])

SpecBus == Init /\ [][NextBus]_vars

\* MMC3 register writes of the CPU: <<address, value>>
MapperWrites == {<<49152, 2>>, <<49153, 0>>, <<57344, 0>>, <<57345, 0>>}

\* pattern table addresses read by the PPU: A12 low and A12 high
PatternReads == {0, 4096}

\* The MMC3 IRQ registers and the PPU-side reads of the cartridge.
NextMmc3 ==
    \/ \E w \in MapperWrites : CpuWrite(w[1], w[2])
    \/ \E a \in PatternReads : PpuBusRead(a)

SpecMmc3 == Init /\ [][NextMmc3]_vars

\* cartridges: <<number of 8 KiB PRG banks, number of 1 KiB CHR banks>>, from
\* the smallest to the largest that Mmc3CpuMemory::new accepts
Cartridges == {<<2, 8>>, <<4, 16>>, <<8, 32>>, <<16, 128>>, <<32, 64>>,
               <<64, 256>>}

InitCartridges == \E c \in Cartridges : InitCartridge(c[1], c[2])

\* bank select ($8000: R6, R7, with and without PRG swap) and bank data
\* ($8001) writes of the CPU
PrgBankWrites == {<<32768, 6>>, <<32768, 7>>, <<32768, 70>>, <<32768, 71>>,
                  <<32769, 8>>, <<32769, 255>>}

\* PRG ROM reads of the CPU: both ends of each of the four windows and the
\* addresses read in test_ppu_calc_addr
PrgReads == {32768, 33023, 40959, 40960, 49151, 49152, 49237, 57343,
             57344, 57392, 65535}

\* The PRG banking of the MMC3 on cartridges of every size.
NextPrg ==
    \/ \E w \in PrgBankWrites : CpuWrite(w[1], w[2])
    \/ \E a \in PrgReads : CpuRead(a)

SpecPrg == InitCartridges /\ [][NextPrg]_vars

(***************************************************************************)
(* Properties.                                                             *)
(***************************************************************************)
\* CPU cycles ahead of the current one to which catch_up is also applied
ProbeCycles == 0..9

\* C1: after every call of Ppu::catch_up that returns, the PPU is at or past
\* three times the CPU cycle count and at most 7 cycles past it.  Stated for
\* the catch_up calls of the operations (lag) and on catch_up applied to
\* every reachable state for the next CPU cycles.
C1_CatchUpBound ==
    halt = "running" =>
        /\ \A l \in lag : l \in 0..7
        /\ \A k \in ProbeCycles :
              LET m1 == catch_up(Machine, cpu.cycle_count + k)
              IN m1.halt = "running" =>
                    lag_of(m1, cpu.cycle_count + k) \in 0..7

\* a frame-loop run that ended 7 cycles past the CPU while rendering
C1_Witness ==
    /\ halt = "running"
    /\ bus.op = "run"
    /\ lag = {7}
    /\ is_background_enable(ppu)
    /\ ppu.current_scanline \in 0..239

\* C2: a CPU read or write of 0x2000-0x3FFF and a write of 0x4014 is applied
\* to a PPU that catch_up brought to at least three times the CPU cycle
\* count (every lag recorded by the access is non-negative, and one is
\* recorded).
C2_AccessAfterCatchUp ==
    (/\ halt = "running"
     /\ bus.op \in {"read", "write"}
     /\ (is_2000_to_3fff(bus.addr) \/ bus.addr = 16404))
    => (lag # {} /\ \A l \in lag : l >= 0)

\* an OAM DMA started after the CPU ran ahead of the PPU
C2_Witness ==
    /\ halt = "running"
    /\ bus.op = "write"
    /\ bus.addr = 16404
    /\ cpu.cycle_count >= 113 + 513
    /\ Cardinality(lag) > 1

\* C3: in every reachable state the dot is at most 340 and the scanline is
\* in -1..260.
C3_PositionInRange ==
    /\ ppu.current_scanline_dot <= 340
    /\ ppu.current_scanline \in -1..260

\* C4: from every reachable PPU state an iteration of the loop of Ppu::step
\* changes the cycle count or the position (so the loop reaches its target).
C4_IterationProgresses ==
    halt # "panicked" =>
        LET n == step_once([ppu |-> ppu, nmi |-> cpu.nmi, halt |-> "running"])
        IN \/ n.halt = "panicked"
           \/ n.ppu.cycle_count # ppu.cycle_count
           \/ n.ppu.current_scanline # ppu.current_scanline
           \/ n.ppu.current_scanline_dot # ppu.current_scanline_dot

\* the PPU is in VBlank, past dot 1 of scanline 241
PastVblankStart ==
    \/ ppu.current_scanline \in 242..260
    \/ ppu.current_scanline = 241 /\ ppu.current_scanline_dot > 1

\* C5: stepping that starts past dot 1 of scanline 241 and stays short of
\* the next frame's scanline 241 sets neither the VBlank flag nor the NMI
\* edge.
C5_SingleVblankEdge ==
    [][(bus'.op = "run" /\ PastVblankStart)
       => /\ cpu'.nmi => cpu.nmi
          /\ is_vblank(ppu') => is_vblank(ppu)]_vars

\* C6: after a CPU read of $2002 the VBlank flag is clear.
C6_StatusReadClearsVblank ==
    (halt = "running" /\ bus.op = "read" /\ bus.addr % 8 = 2)
    => ~is_vblank(ppu)

\* C7: between dot 1 of the pre-render scanline and scanline 241 the bits
\* 7, 6 and 5 of ppustatus are 0.
C7_FlagsClearAfterPreRender ==
    (/\ halt = "running"
     /\ \/ ppu.current_scanline \in 0..240
        \/ ppu.current_scanline = -1 /\ ppu.current_scanline_dot > 1)
    => ppu.ppustatus \div 32 = 0

\* C8: a CPU write of val to $2000 stores val in ppuctrl, sets bits 10-11 of
\* t to val & 3, leaves the other bits of t and v unchanged, and sets the
\* NMI edge exactly when bit 7 of val and the VBlank flag are set; a pending
\* edge stays pending.
C8_WritePpuctrl ==
    [][(/\ bus'.op = "write"
        /\ is_2000_to_3fff(bus'.addr)
        /\ bus'.addr % 8 = 0
        /\ halt' = "running")
       => /\ ppu'.ppuctrl = bus'.val
          /\ (ppu'.temp_vram_addr \div 1024) % 4 = bus'.val % 4
          /\ ppu'.temp_vram_addr % 1024 = ppu.temp_vram_addr % 1024
          /\ ppu'.temp_vram_addr \div 4096 = ppu.temp_vram_addr \div 4096
          /\ ppu'.current_vram_addr = ppu.current_vram_addr
          /\ cpu'.nmi = (cpu.nmi \/ (bus'.val \div 128 = 1 /\ is_vblank(ppu)))
      ]_vars

\* $2000 written with 0x83 during VBlank: the edge is set, t selects
\* nametable 3
C8_Witness ==
    /\ halt = "running"
    /\ bus = [op |-> "write", addr |-> 8192, val |-> 131]
    /\ is_vblank(ppu)
    /\ cpu.nmi
    /\ get_nametable_select(ppu.temp_vram_addr) = 3
    /\ ppu.ppuctrl = 131

\* C9: a write to an even address of $E000-$FFFF clears irq_enable and
\* decrements cpu.irq only if the IRQ was enabled; a write to an odd address
\* sets irq_enable and leaves cpu.irq unchanged.
C9_IrqEnableWrites ==
    [][(bus'.op = "write" /\ is_e000_to_ffff(bus'.addr))
       => IF bus'.addr % 2 = 0
          THEN /\ mmc3'.irq_enable = 0
               /\ cpu'.irq = IF mmc3.irq_enable = 1
                             THEN cpu.irq - 1 ELSE cpu.irq
          ELSE /\ mmc3'.irq_enable = 1
               /\ cpu'.irq = cpu.irq]_vars

\* C10: a PPU access with A12 high that follows a PPU access with A12 low
\* reloads irq_counter from irq_latch (counter 0 or reload requested) or
\* decrements it, and raises cpu.irq when the result is 0 and the IRQ is
\* enabled; any other PPU access leaves irq_counter unchanged.
C10_A12RisingEdgeClocks ==
    [][(bus.op = "ppu_read" /\ bus'.op = "ppu_read")
       => IF Bit(bus.addr, 12) = 0 /\ Bit(bus'.addr, 12) = 1
          THEN LET reload == ppu_memory.irq_counter = 0 \/ mmc3.irq_reload = 1
                   counter == IF reload THEN mmc3.irq_latch
                              ELSE ppu_memory.irq_counter - 1
               IN /\ ppu_memory'.irq_counter = counter
                  /\ reload => mmc3'.irq_reload = 0
                  /\ cpu'.irq = IF counter = 0 /\ mmc3.irq_enable = 1
                                THEN cpu.irq + 1 ELSE cpu.irq
          ELSE ppu_memory'.irq_counter = ppu_memory.irq_counter]_vars

\* PRG RAM protect ($A001: bits 7 and 6) and PRG RAM writes of the CPU
PrgRamWrites == {<<40961, 128>>, <<40961, 192>>, <<40961, 64>>, <<40961, 0>>,
                 <<24576, 255>>, <<24576, 17>>, <<32767, 85>>}

\* PRG RAM reads of the CPU
PrgRamReads == {24576, 32767}

\* PRG RAM behind its enable and protect bits.
NextPrgRam ==
    \/ \E w \in PrgRamWrites : CpuWrite(w[1], w[2])
    \/ \E a \in PrgRamReads : CpuRead(a)

SpecPrgRam == Init /\ [][NextPrgRam]_vars

\* PPUCTRL, PPUSCROLL and PPUADDR writes of the CPU (the values of
\* test_write_2005 and test_write_2006, and the mirror $3FFE of $2006)
RegisterWrites == {<<8192, 3>>, <<8192, 0>>, <<8197, 125>>, <<8197, 94>>,
                   <<8198, 237>>, <<16382, 240>>}

\* PPUSTATUS reads of the CPU
ToggleReads == {8194}

\* The scroll and address registers of the PPU behind their write toggle.
NextRegs ==
    \/ \E w \in RegisterWrites : CpuWrite(w[1], w[2])
    \/ \E a \in ToggleReads : CpuRead(a)

SpecRegs == Init /\ [][NextRegs]_vars

\* the CPU has made fewer than MaxDataRun PPUDATA accesses since it set the
\* VRAM address (v = t then, and every access adds 1 to v)
DataRunOpen ==
    (ppu.current_vram_addr - ppu.temp_vram_addr) % 16384 < MaxDataRun

\* PPUDATA behind PPUADDR with rendering off: the CPU sets the address to
\* 0x0000, 0x0024, 0x2400 or 0x2424 and writes 0xEE or reads.
NextData ==
    \/ \E w \in {<<8198, 36>>, <<8198, 0>>} : CpuWrite(w[1], w[2])
    \/ DataRunOpen /\ CpuWrite(8199, 238)
    \/ DataRunOpen /\ CpuRead(8199)

SpecData == Init /\ [][NextData]_vars

\* PPUDATA at the palettes: the CPU writes PPUADDR and PPUSCROLL in any order
\* ($2006 = 0x3F twice gives v = 0x3F3F; $2006, $2005, $2005, $2006 gives
\* v = 0x7F3F, the second PPUSCROLL write having set fine y to 7) and writes
\* 0x2A or reads.
NextPalette ==
    \/ \E w \in {<<8198, 63>>, <<8197, 255>>} : CpuWrite(w[1], w[2])
    \/ DataRunOpen /\ CpuWrite(8199, 42)
    \/ DataRunOpen /\ CpuRead(8199)

SpecPalette == Init /\ [][NextPalette]_vars

\* the CPU makes one PPUDATA access after it set the VRAM address (second
\* PPUADDR write) or after the frame loop ran
DataAccessOpen ==
    \/ bus.op \in {"init", "run"}
    \/ bus.op = "write" /\ bus.addr = 8198 /\ ~ppu.low_bits_toggle

\* PPUDATA accesses through a frame and into the next one: the frame loop
\* runs 15000 CPU cycles at a time (scanline 130 of the first frame, then
\* scanline 0 of the second frame); the CPU enables the background, selects
\* the increment of 32, sets the address (0x3FFF, 0x3FE0, 0x20FF, 0x20E0)
\* and reads PPUDATA or writes 0 to it (the PPU memory stays as it was).
NextIncrement ==
    \/ RunFrameLoop(15000)
    \/ \E w \in {<<8193, 8>>, <<8192, 4>>, <<8198, 255>>, <<8198, 224>>} :
          CpuWrite(w[1], w[2])
    \/ DataAccessOpen /\ CpuWrite(8199, 0)
    \/ DataAccessOpen /\ CpuRead(8199)

SpecIncrement == Init /\ [][NextIncrement]_vars

(***************************************************************************)
(* The VRAM address increments as functions of v: the PPU holds any 15-bit *)
(* v and one of the two increments is applied to it.                       *)
(***************************************************************************)
InitVramAddr ==
    \E v \in 0..32767 :
        InitMachine(PrgBanks, ChrBanks, [PpuNew EXCEPT !.current_vram_addr = v])

\* self.increment_vram_addr_coarse_x()
IncrementCoarseX ==
    /\ ppu' = increment_vram_addr_coarse_x(ppu)
    /\ bus' = [op |-> "increment_vram_addr_coarse_x", addr |-> 0, val |-> 0]
    /\ UNCHANGED <<cpu, mmc3, ppu_memory, halt, lag>>

\* self.increment_vram_addr_y()
IncrementY ==
    /\ ppu' = increment_vram_addr_y(ppu)
    /\ bus' = [op |-> "increment_vram_addr_y", addr |-> 0, val |-> 0]
    /\ UNCHANGED <<cpu, mmc3, ppu_memory, halt, lag>>

NextVramAddr == IncrementCoarseX \/ IncrementY

SpecVramAddr == InitVramAddr /\ [][NextVramAddr]_vars

(***************************************************************************)
(* The pre-render scanline and scanline 0, three CPU cycles at a time: the *)
(* PPU stops at dot 256 and at dot 280 of the pre-render scanline and at   *)
(* dot 257 of scanline 0.  The CPU sets v = t = 0x0A00 (test_temp_to_      *)
(* current_vram_transfer: nametable 2, coarse y 16), selects nametable 1   *)
(* or 2 in t and sets the coarse x of t to 21.                             *)
(***************************************************************************)
NextScanline ==
    \/ cpu.cycle_count < MaxScanlineCycle /\ RunFrameLoop(3)
    \/ \E w \in {<<8198, 10>>, <<8198, 0>>, <<8192, 1>>, <<8192, 2>>,
                 <<8197, 168>>} : CpuWrite(w[1], w[2])

SpecScanline == Init /\ [][NextScanline]_vars

(***************************************************************************)
(* v and t through the pre-render scanline and scanline 0, 57 CPU cycles   *)
(* at a time: the CPU enables the background, selects nametable 3 and the  *)
(* increment of 32, sets the scroll to 255/255 (fine y 7, coarse y 31),    *)
(* sets the address with $2006 = 0x3F, and reads PPUDATA or writes 0 to it. *)
(***************************************************************************)
NextVram ==
    \/ cpu.cycle_count < MaxScanlineCycle /\ RunFrameLoop(57)
    \/ \E w \in {<<8193, 8>>, <<8192, 7>>, <<8197, 255>>, <<8198, 63>>} :
          CpuWrite(w[1], w[2])
    \/ DataAccessOpen /\ CpuRead(8199)
    \/ DataAccessOpen /\ CpuWrite(8199, 0)

SpecVram == Init /\ [][NextVram]_vars

(***************************************************************************)
(* The nametables of cartridges of each mirroring type: the PPU writes 17  *)
(* or 34 to byte 767 of each nametable and of each mirror at 0x3000, to    *)
(* the first byte of the nametables at 0x2000 and 0x2400, and to the       *)
(* pattern-table byte 0x0155; it reads them back; the CPU switches the     *)
(* mirroring with $A000.                                                   *)
(***************************************************************************)
NametableAddrs ==
    {b + 767 : b \in {8192, 9216, 10240, 11264, 12288, 13312, 14336, 15360}}
       \cup {8192, 9216}

InitMirroring ==
    \E mirroring \in {"Hor", "Vert", "FourScreen"} :
        InitMapper(PrgBanks, Mmc3PpuMemoryNew(ChrBanks, mirroring), PpuNew)

NextNametables ==
    \/ \E a \in NametableAddrs, val \in {17, 34} : PpuBusWrite(a, val)
    \/ \E a \in NametableAddrs : PpuBusReadByte(a)
    \/ \E val \in {17, 34} : PpuBusWrite(341, val)
    \/ PpuBusReadByte(341)
    \/ \E val \in {0, 1} : CpuWrite(40960, val)

SpecNametables == InitMirroring /\ [][NextNametables]_vars

(***************************************************************************)
(* CPU reads of PPUCTRL, PPUMASK, OAMADDR, PPUSCROLL and PPUADDR (and of   *)
(* the mirror $3FF9 of PPUMASK) between writes of these registers.         *)
(***************************************************************************)
NextWriteOnly ==
    \/ \E w \in {<<8192, 3>>, <<8193, 8>>, <<8193, 0>>, <<8195, 254>>,
                  <<8197, 125>>, <<8198, 63>>} : CpuWrite(w[1], w[2])
    \/ \E a \in {8192, 8193, 8195, 8197, 8198, 16377} : CpuRead(a)

SpecWriteOnly == Init /\ [][NextWriteOnly]_vars

(***************************************************************************)
(* Sprites on scanlines 27 to 29.  The primary OAM holds `count` sprites   *)
(* from index `first` on, two at each x of 16, 20, 24, ...: the even ones  *)
(* show tile 1 (left half transparent), the odd ones tile 2 (opaque); y    *)
(* and the attributes alternate between two values each (y = 20 and 21 are *)
(* on scanline 27, y = 12 is 15 lines above it); PPUCTRL selects 8x8 or    *)
(* 8x16 sprites.                                                           *)
(***************************************************************************)
\* the pattern table bytes are those of tiles 1 and 2 (bitplane lo at
\* 16 t + row, hi at 16 t + 8 + row)
InitSprites ==
    \E first \in {0, 1}, count \in 0..10,
       ys \in {<<20, 20>>, <<21, 20>>, <<12, 21>>},
       attrs \in {<<0, 32>>, <<61, 196>>},
       ctrl \in {0, 32} :
        InitMapper(PrgBanks,
                   [Mmc3PpuMemoryNew(ChrBanks, "Hor") EXCEPT
                       !.chr_banks =
                           [a \in (16..23) \cup (32..47) |->
                               IF a < 20 THEN 15
                               ELSE IF a < 24 THEN 14
                               ELSE IF a < 40 THEN 255
                               ELSE 240 + (a - 40)]],
                   [PpuNew EXCEPT
                       !.ppuctrl = ctrl,
                       !.current_scanline = 27,
                       !.current_scanline_dot = 65,
                       !.sprite_oam.primary =
                           [b \in (4 * first)..(4 * (first + count) - 1) |->
                               LET j == (b \div 4) - first
                               IN CASE b % 4 = 0 -> ys[(j % 2) + 1]
                                    [] b % 4 = 1 -> 1 + (j % 2)
                                    [] b % 4 = 2 -> attrs[(j % 2) + 1]
                                    [] OTHER -> 16 + 4 * (j \div 2)]])

NextSprites ==
    \/ EvalNextScanlineSprite
    \/ FetchNextScanlineSpriteData
    \/ StartSpriteEvaluation
    \/ \E dot \in {16, 19, 20, 23, 24, 36, 60} : GetSpriteAtDotInfo(dot)

SpecSprites == InitSprites /\ [][NextSprites]_vars

(***************************************************************************)
(* Background tile fetches at v = 0x0000, 0x0F00, 0x1F00 and 0x2F00, from  *)
(* either pattern table.  The bank registers map the 8 CHR banks in order, *)
(* so that the PPU bus and the raw pattern tables show the same bytes; the *)
(* tiles 0 to 2 of both pattern tables have nonzero rows.  The PPU writes  *)
(* 1 or 2 to the nametable bytes 0x2000 and 0x2F00 and to the palette byte *)
(* 0x3F00, and 0xE4 to the attribute byte 0x2FF0.                          *)
(***************************************************************************)
InitBg ==
    \E v \in {0, 3840, 7936, 12032}, ctrl \in {0, 16} :
        InitMapper(PrgBanks,
                   [Mmc3PpuMemoryNew(ChrBanks, "Vert") EXCEPT
                       !.r = [i \in 0..7 |->
                                 IF i < 2 THEN 2 * i
                                 ELSE IF i < 6 THEN i + 2 ELSE 0],
                       !.chr_banks =
                           [a \in (0..47) \cup (4096..4143) |->
                               1 + ((a * 7) % 255)]],
                   [PpuNew EXCEPT !.ppuctrl = ctrl,
                                  !.current_vram_addr = v])

NextBg ==
    \/ FetchCurrentTileData
    \/ \E a \in {8192, 12032, 16128}, val \in {1, 2} : PpuBusWrite(a, val)
    \/ PpuBusWrite(12272, 228)

SpecBg == InitBg /\ [][NextBg]_vars

(***************************************************************************)
(* The frame scanline by scanline: the frame loop runs 113 or 114 CPU      *)
(* cycles (341 / 3) and is looked at when the PPU has just ended a         *)
(* scanline.  Around the end of the frame (scanlines 260, -1) the CPU      *)
(* switches the background on or off and sets fine x to 3.                 *)
(***************************************************************************)
NextLines ==
    \/ \E d \in {113, 114} : RunFrameLoop(d) /\ ppu'.current_scanline_dot = 0
    \/ \E w \in {<<8193, 8>>, <<8193, 0>>, <<8197, 3>>} :
          ppu.current_scanline \in {-1, 260} /\ CpuWrite(w[1], w[2])

SpecLines == Init /\ [][NextLines]_vars

(***************************************************************************)
(* The post-render scanline and VBlank, rendering off: the frame loop runs *)
(* to the end of scanline 238 and then scanline by scanline; between two   *)
(* scanlines of 240..260 the CPU writes PPUADDR = 0x21 or PPUSCROLL = 0x50 *)
(* or reads PPUDATA.                                                       *)
(***************************************************************************)
NextVblank ==
    \/ \E d \in {27280, 27281} :
          bus.op = "init" /\ RunFrameLoop(d)
             /\ ppu'.current_scanline_dot = 0
    \/ \E d \in {113, 114} :
          cpu.cycle_count > 0 /\ RunFrameLoop(d)
             /\ ppu'.current_scanline_dot = 0
    \/ \E w \in {<<8198, 33>>, <<8197, 80>>} :
          bus.op = "run" /\ ppu.current_scanline \in 240..260
             /\ CpuWrite(w[1], w[2])
    \/ bus.op = "run" /\ ppu.current_scanline \in 240..260 /\ CpuRead(8199)

SpecVblank == Init /\ [][NextVblank]_vars

(***************************************************************************)
(* OAMDMA.  The CPU sets oamaddr to 0xFE, stores 0x11 at 0x0200 and 0x22   *)
(* at 0x02FF of its RAM, puts 0x2A at 0x2000 of the PPU memory and starts  *)
(* an OAMDMA of page 0x02 or 0x20.                                         *)
(***************************************************************************)
NextOamDma ==
    \/ \E w \in {<<8195, 254>>, <<512, 17>>, <<767, 34>>, <<8198, 32>>,
                 <<8198, 0>>, <<16404, 2>>, <<16404, 32>>} :
          CpuWrite(w[1], w[2])
    \/ ppu.current_vram_addr = ppu.temp_vram_addr /\ CpuWrite(8199, 42)

SpecOamDma == Init /\ [][NextOamDma]_vars

(***************************************************************************)
(* OAMADDR and OAMDATA.  The CPU sets oamaddr to 0xFE, writes 0x11 or 0x22 *)
(* to OAMDATA at 0xFE and 0xFF, reads OAMDATA, and switches the background *)
(* on and off; the frame loop runs 13800 CPU cycles at a time, to scanline *)
(* 120 and to scanline 241, where the VBlank flag is set.                  *)
(***************************************************************************)
NextOamData ==
    \/ \E w \in {<<8195, 254>>, <<8193, 8>>, <<8193, 0>>} :
          CpuWrite(w[1], w[2])
    \/ \E val \in {17, 34} : ppu.oamaddr >= 254 /\ CpuWrite(8196, val)
    \/ CpuRead(8196)
    \/ RunFrameLoop(13800)

SpecOamData == Init /\ [][NextOamData]_vars

\* bank select ($8000: R0..R5, with and without A12 inversion) and bank
\* data ($8001) writes of the CPU
ChrBankWrites == {<<32768, 0>>, <<32768, 129>>, <<32768, 130>>,
                  <<32768, 3>>, <<32768, 4>>, <<32768, 133>>,
                  <<32769, 253>>}

\* pattern table addresses read by the PPU: both ends of each 1 KiB quarter
ChrReads == {0, 1023, 1024, 2047, 2048, 3071, 3072, 4095,
             4096, 5119, 5120, 6143, 6144, 7167, 7168, 8191}

\* The CHR banking of the MMC3 on cartridges of every size.
NextChr ==
    \/ \E w \in ChrBankWrites : CpuWrite(w[1], w[2])
    \/ \E a \in ChrReads : PpuBusRead(a)

SpecChr == InitCartridges /\ [][NextChr]_vars

\* C11: a CPU read of 0x8000-0xFFFF returns the byte at offset addr & 0x1FFF
\* of the bank that the window maps: the last bank for 0xE000-0xFFFF,
\* r[7] & (n - 1) for 0xA000-0xBFFF, and r[6] & (n - 1) and the second to
\* last bank for 0x8000-0x9FFF and 0xC000-0xDFFF, in this order when
\* prg_banks_swapped = 0 and exchanged when it is 1 (n = number of banks).
C11_PrgWindows ==
    (bus.op = "read" /\ bus.addr \in 32768..65535) =>
        LET n == mmc3.prg_banks_len
            a == bus.addr
            switchable == ppu_memory.r[6] % n
            bank == IF a >= 57344 THEN n - 1
                    ELSE IF a >= 49152
                    THEN IF mmc3.prg_banks_swapped = 0
                         THEN n - 2 ELSE switchable
                    ELSE IF a >= 40960 THEN ppu_memory.r[7] % n
                    ELSE IF mmc3.prg_banks_swapped = 0
                         THEN switchable ELSE n - 2
        IN bus.val = bank * 8192 + (a % 8192)

\* r[6] = 8 on a 16-bank cartridge without PRG swap: 0x80FF reads offset
\* 0xFF of bank 8
C11_Witness ==
    /\ bus = [op |-> "read", addr |-> 33023, val |-> 8 * 8192 + 255]
    /\ mmc3.prg_banks_len = 16
    /\ mmc3.prg_banks_swapped = 0
    /\ ppu_memory.r[6] = 8

\* C12: a PPU read of a pattern table address a returns the byte at offset
\* a & 0x3FF of a 1 KiB CHR bank chosen as follows, every register being
\* masked with (bank count - 1) first: without A12 inversion 0x0000-0x07FF
\* uses r[0] with bit 0 cleared (lower 1 KiB) or set (upper 1 KiB),
\* 0x0800-0x0FFF the same from r[1], and the quarters of 0x1000-0x1FFF use
\* r[2], r[3], r[4], r[5]; with A12 inversion the two halves are exchanged.
C12_ChrWindows ==
    (bus.op = "ppu_read") =>
        LET n == ppu_memory.chr_banks_len
            a == bus.addr
            \* the address in the layout without inversion
            b == IF ppu_memory.a12_invert = 1 THEN (a + 4096) % 8192 ELSE a
            pair == ppu_memory.r[b \div 2048] % n
            bank == IF b < 4096
                    THEN (pair - (pair % 2)) + ((b \div 1024) % 2)
                    ELSE ppu_memory.r[2 + ((b - 4096) \div 1024)] % n
        IN bus.val = bank * 1024 + (a % 1024)

\* r[0] = 0xFD on 128 banks with A12 inversion: 0x17FF reads the last byte
\* of bank (0xFD & 0x7F) | 1 = 125
C12_Witness ==
    /\ bus = [op |-> "ppu_read", addr |-> 6143, val |-> 125 * 1024 + 1023]
    /\ ppu_memory.chr_banks_len = 128
    /\ ppu_memory.a12_invert = 1
    /\ ppu_memory.r[0] = 253

\* the reads of all eight 1 KiB CHR windows and all four 8 KiB PRG windows
\* in mapper state mm, pm index existing banks
BankIndicesInRange(mm, pm) ==
    /\ \A a \in {0, 1024, 2048, 3072, 4096, 5120, 6144, 7168} :
         chr_bank_idx(pm, a) \in 0..(pm.chr_banks_len - 1)
    /\ \A a \in {32768, 40960, 49152, 57344} :
         prg_bank_idx(mm, pm, a) \in 0..(mm.prg_banks_len - 1)

\* C13: on a cartridge of any accepted size every bank index computed by a
\* CPU read of PRG ROM or a PPU read of a pattern table is an index of an
\* existing bank; and where a bank data write has just stored its value,
\* the same is true with any value 0..255 in any one of the bank registers.
C13_BankIndicesInRange ==
    /\ BankIndicesInRange(mmc3, ppu_memory)
    /\ (bus.op = "write" /\ bus.addr = 32769) =>
         \A k \in 0..7 : \A val \in 0..255 :
            BankIndicesInRange(mmc3, [ppu_memory EXCEPT !.r[k] = val])

\* 0xFF in r[6] on the cartridge of two PRG banks: 0x8000 reads bank 1
C13_Witness ==
    /\ bus = [op |-> "read", addr |-> 32768, val |-> 8192]
    /\ mmc3.prg_banks_len = 2
    /\ mmc3.prg_banks_swapped = 0
    /\ ppu_memory.r[6] = 255

\* C14: a CPU write to 0x6000-0x7FFF stores its byte at addr & 0x1FFF of
\* PRG RAM if prg_ram_enable = 1 and prg_ram_protect = 0, and changes
\* neither PRG RAM nor any mapper register otherwise; a CPU read of
\* 0x6000-0x7FFF changes nothing and returns the stored byte at
\* addr & 0x1FFF if PRG RAM is enabled and 0 if it is disabled; a write to
\* $A001 sets the two bits from bits 7 and 6 of the value.
C14_PrgRamGate ==
    [][/\ (bus'.op = "write" /\ bus'.addr \in 24576..32767) =>
            /\ ppu_memory' = ppu_memory
            /\ IF mmc3.prg_ram_enable = 1 /\ mmc3.prg_ram_protect = 0
               THEN /\ byte_at(mmc3'.prg_ram, bus'.addr % 8192) = bus'.val
                    /\ \A i \in 0..8191 \ {bus'.addr % 8192} :
                         byte_at(mmc3'.prg_ram, i) = byte_at(mmc3.prg_ram, i)
                    /\ [mmc3' EXCEPT !.prg_ram = <<>>]
                           = [mmc3 EXCEPT !.prg_ram = <<>>]
               ELSE mmc3' = mmc3
       /\ (bus'.op = "read" /\ bus'.addr \in 24576..32767) =>
            /\ mmc3' = mmc3 /\ ppu_memory' = ppu_memory
            /\ bus'.val = IF mmc3.prg_ram_enable = 1
                          THEN byte_at(mmc3.prg_ram, bus'.addr % 8192)
                          ELSE 0
       /\ (bus'.op = "write" /\ bus'.addr = 40961) =>
            /\ mmc3'.prg_ram_enable = (bus'.val \div 128) % 2
            /\ mmc3'.prg_ram_protect = (bus'.val \div 64) % 2
            /\ mmc3'.prg_ram = mmc3.prg_ram
      ]_vars

\* 0x55 stored at 0x7FFF while PRG RAM was writable, 0xFF refused at 0x6000
\* after it was protected
C14_Witness ==
    /\ bus = [op |-> "write", addr |-> 24576, val |-> 255]
    /\ mmc3.prg_ram_enable = 1
    /\ mmc3.prg_ram_protect = 1
    /\ byte_at(mmc3.prg_ram, 8191) = 85
    /\ byte_at(mmc3.prg_ram, 0) = 17

\* the step is a CPU write to PPU register index (mirrors included)
IsRegisterWrite(index) ==
    /\ bus'.op = "write"
    /\ bus'.addr \in 8192..16383
    /\ bus'.addr % 8 = index

\* values written as y in the sequence of C15
ByteSamples == {0, 7, 8, 94, 125, 192, 237, 240, 255}

\* the PPU after the CPU writes val to register index
AfterWrite(p, index, val) ==
    write_register_by_index([ppu |-> p, nmi |-> FALSE, halt |-> "running"],
                            index, val).ppu

\* p1 and p3 are what C15 states of the PPU after x was written to $2005 in
\* p0, and after y to $2005 and c to $2000 were written as well
ScrollSequence(p0, p1, p3, x, y, c) ==
    /\ p3.temp_vram_addr = (y % 8) * 4096 + (c % 4) * 1024
                           + (y \div 8) * 32 + (x \div 8)
    /\ p3.fine_x_scroll = x % 8
    /\ ~p3.low_bits_toggle
    /\ p3.current_vram_addr = p0.current_vram_addr
    /\ p1 = [p0 EXCEPT !.low_bits_toggle = TRUE,
                       !.fine_x_scroll = x % 8,
                       !.temp_vram_addr = (@ \div 32) * 32 + (x \div 8)]

\* p1 and p2 are what C16 states of the PPU after h was written to $2006 in
\* p0, and after l was written to $2006 as well
AddrSequence(p0, p1, p2, h, l) ==
    /\ p2.temp_vram_addr = (h % 64) * 256 + l
    /\ p2.current_vram_addr = p2.temp_vram_addr
    /\ p2.temp_vram_addr < 16384
    /\ ~p2.low_bits_toggle
    /\ p1 = [p0 EXCEPT !.low_bits_toggle = TRUE,
                       !.temp_vram_addr = (h % 64) * 256 + (@ % 256)]

\* C15: with w = 0 and any t, writing x and y to $2005 and c to $2000 gives
\* t = ((y & 7) << 12) | ((c & 3) << 10) | ((y >> 3) << 5) | (x >> 3),
\* fine_x = x & 7 and w = 0 and leaves v unchanged; the first $2005 write
\* alone sets w = 1 and changes only coarse_x of t and fine_x.  Stated for
\* every first $2005 write of the CPU followed by the writes of any y and c,
\* and for every single write that the CPU performs.
C15_ScrollWrites ==
    [][/\ (IsRegisterWrite(5) /\ ~ppu.low_bits_toggle) =>
            \A y \in ByteSamples : \A c \in 0..3 :
                ScrollSequence(ppu, ppu',
                               AfterWrite(AfterWrite(ppu', 5, y), 0, c),
                               bus'.val, y, c)
       /\ (IsRegisterWrite(5) /\ ~ppu.low_bits_toggle) =>
            ppu' = [ppu EXCEPT
                      !.low_bits_toggle = TRUE,
                      !.fine_x_scroll = bus'.val % 8,
                      !.temp_vram_addr = (@ \div 32) * 32 + (bus'.val \div 8)]
       /\ (IsRegisterWrite(5) /\ ppu.low_bits_toggle) =>
            ppu' = [ppu EXCEPT
                      !.low_bits_toggle = FALSE,
                      !.temp_vram_addr = (bus'.val % 8) * 4096
                                         + ((@ \div 1024) % 4) * 1024
                                         + (bus'.val \div 8) * 32 + (@ % 32)]
       /\ IsRegisterWrite(0) =>
            ppu' = [ppu EXCEPT
                      !.ppuctrl = bus'.val,
                      !.temp_vram_addr = (@ \div 4096) * 4096
                                         + (bus'.val % 4) * 1024 + (@ % 1024)]
      ]_vars

\* x = 0x7D, y = 0x5E written to $2005 and c = 3 to $2000
C15_Witness ==
    /\ bus = [op |-> "write", addr |-> 8192, val |-> 3]
    /\ ppu.temp_vram_addr = 6 * 4096 + 3 * 1024 + 11 * 32 + 15
    /\ ppu.fine_x_scroll = 5
    /\ ~ppu.low_bits_toggle
    /\ ppu.current_vram_addr = 0

\* C16: with w = 0 and any t, writing h and l to $2006 gives
\* t = v = ((h & 0x3F) << 8) | l, bits 14 and 15 clear, and w = 0; the first
\* write alone sets bits 8-13 of t to h & 0x3F, clears bit 14, keeps the low
\* byte of t, sets w = 1 and leaves v unchanged.  Stated for every first
\* $2006 write of the CPU followed by the write of any l, and for every
\* single write that the CPU performs.
C16_AddrWrites ==
    [][/\ (IsRegisterWrite(6) /\ ~ppu.low_bits_toggle) =>
            \A l \in 0..255 :
                AddrSequence(ppu, ppu', AfterWrite(ppu', 6, l), bus'.val, l)
       /\ (IsRegisterWrite(6) /\ ~ppu.low_bits_toggle) =>
            ppu' = [ppu EXCEPT
                      !.low_bits_toggle = TRUE,
                      !.temp_vram_addr = (bus'.val % 64) * 256 + (@ % 256)]
       /\ (IsRegisterWrite(6) /\ ppu.low_bits_toggle) =>
            /\ ppu'.temp_vram_addr =
                  (ppu.temp_vram_addr \div 256) * 256 + bus'.val
            /\ ppu' = [ppu EXCEPT
                         !.low_bits_toggle = FALSE,
                         !.temp_vram_addr = ppu'.temp_vram_addr,
                         !.current_vram_addr = ppu'.temp_vram_addr]
      ]_vars

\* h = 0xED, l = 0xF0 written to $2006 after fine y 6 had set bit 14 of t
C16_Witness ==
    /\ bus = [op |-> "write", addr |-> 16382, val |-> 240]
    /\ ppu.temp_vram_addr = 45 * 256 + 240
    /\ ppu.current_vram_addr = 45 * 256 + 240
    /\ ~ppu.low_bits_toggle
    /\ ppu.fine_x_scroll = 5

\* C17: a CPU read of $2002 leaves w = 0 whatever it was, and the write to
\* $2005 or $2006 that follows is handled as a first write (v unchanged,
\* w = 1, coarse x and fine x, or bits 8-14 of t, written); every write to
\* $2005 or to $2006 flips the one toggle w.
C17_ToggleReset ==
    [][/\ (bus'.op = "read" /\ bus'.addr \in 8192..16383
                            /\ bus'.addr % 8 = 2) =>
            /\ ~ppu'.low_bits_toggle
            /\ \A val \in ByteSamples :
                 /\ AfterWrite(ppu', 5, val) =
                       [ppu' EXCEPT
                          !.low_bits_toggle = TRUE,
                          !.fine_x_scroll = val % 8,
                          !.temp_vram_addr = (@ \div 32) * 32 + (val \div 8)]
                 /\ AfterWrite(ppu', 6, val) =
                       [ppu' EXCEPT
                          !.low_bits_toggle = TRUE,
                          !.temp_vram_addr = (val % 64) * 256 + (@ % 256)]
       /\ (IsRegisterWrite(5) \/ IsRegisterWrite(6)) =>
            ppu'.low_bits_toggle = ~ppu.low_bits_toggle
      ]_vars

\* $2002 read after the single $2005 write of 0x7D
C17_Witness ==
    /\ bus = [op |-> "read", addr |-> 8194, val |-> 0]
    /\ ~ppu.low_bits_toggle
    /\ ppu.temp_vram_addr = 15
    /\ ppu.fine_x_scroll = 5
    /\ ppu.current_vram_addr = 0

\* the PPU after the CPU set the VRAM address to a: $2002 read, then the
\* high and the low byte written to $2006
AddressSet(p, a) ==
    AfterWrite(AfterWrite([p EXCEPT !.low_bits_toggle = FALSE],
                          6, a \div 256), 6, a % 256)

\* the first PPUDATA read in PPU p returns the read buffer of p and the
\* second one, in the PPU r1 left by the first, returns b
StaleThenByte(p, r1, r2, b) ==
    /\ r1.val = p.ppudata_read_buffer
    /\ r2.val = b

\* the step is a PPUDATA access with rendering off and v below 0x3F00
IsDataAccess(op) ==
    /\ bus'.op = op
    /\ bus'.addr = 8199
    /\ ppu.ppumask = 0
    /\ get_addr(ppu.current_vram_addr) < 16128

\* a PPUDATA read with rendering off and v below 0x3F00 returns the read
\* buffer and loads it with the PPU memory byte at v
BufferedRead ==
    IsDataAccess("read") =>
        /\ bus'.val = ppu.ppudata_read_buffer
        /\ ppu'.ppudata_read_buffer =
              ppu_memory_read(ppu_memory, get_addr(ppu.current_vram_addr)).val

\* after the PPUDATA write of this step, with v set back to the address
\* written, the first read returns the stale buffer and the second the byte
RoundTrip ==
    StaleThenByte(
        AddressSet(ppu', get_addr(ppu.current_vram_addr)),
        read_register_by_index(
            AddressSet(ppu', get_addr(ppu.current_vram_addr)),
            ppu_memory', 7),
        read_register_by_index(
            read_register_by_index(
                AddressSet(ppu', get_addr(ppu.current_vram_addr)),
                ppu_memory', 7).ppu,
            ppu_memory', 7),
        bus'.val)

PaletteReadDirect(p, memory, val, buffer) ==
    LET addr == p.current_vram_addr % 16384
    IN addr \in 16128..16383 =>
          /\ val = ppu_memory_read(memory, addr).val
          /\ buffer = ppu_memory_read(memory, addr - 4096).val

C20_PaletteReadDirect ==
    [][(bus'.op = "read" /\ bus'.addr = 8199 /\ halt' = "running") =>
          PaletteReadDirect(catch_up(Machine, cpu.cycle_count).ppu,
                            ppu_memory, bus'.val, ppu'.ppudata_read_buffer)]_vars

\* the same reads with bit 14 of v clear: the part of C20 that the code keeps
C20_PaletteReadDirectBelowBit14 ==
    [][(/\ bus'.op = "read" /\ bus'.addr = 8199 /\ halt' = "running"
        /\ catch_up(Machine, cpu.cycle_count).ppu.current_vram_addr < 16384) =>
          PaletteReadDirect(catch_up(Machine, cpu.cycle_count).ppu,
                            ppu_memory, bus'.val, ppu'.ppudata_read_buffer)]_vars

\* a read at v = 0x7F3F (address 0x3F3F, palette entry 0x1F = 0x2A) that
\* returned the read buffer
C20_Bit14Read ==
    /\ bus.op = "read" /\ bus.addr = 8199 /\ bus.val = 0
    /\ ppu.temp_vram_addr = 32575
    /\ ppu.current_vram_addr = 16192
    /\ ppu.ppudata_read_buffer = 42
    /\ byte_at(ppu_memory.palettes, 31) = 42

(***************************************************************************)
(* C18: when the PPU is not rendering, every read or write of $2007 adds 1 *)
(* (ppuctrl bit 2 clear) or 32 (bit 2 set) to v modulo 0x4000; when it is  *)
(* rendering, the access performs one coarse-x increment and one y         *)
(* increment on v instead.  The PPU is rendering in the visible scanlines  *)
(* 0..239 with the background or the sprites enabled; it is not rendering  *)
(* with both disabled, nor in the VBlank scanlines 241..260.               *)
(***************************************************************************)
\* the PPUDATA access found the PPU p (caught up) and left the address v
DataAccessIncrement(p, v) ==
    LET enabled == is_sprites_enable(p) \/ is_background_enable(p)
    IN /\ (~enabled \/ p.current_scanline \in 241..260) =>
             v = (p.current_vram_addr
                    + (IF Bit(p.ppuctrl, 2) = 1 THEN 32 ELSE 1)) % 16384
       /\ (enabled /\ p.current_scanline \in 0..239) =>
             v = increment_vram_addr_y(increment_vram_addr_coarse_x(p))
                    .current_vram_addr

C18_DataAccessIncrement ==
    [][(bus'.addr = 8199 /\ halt' = "running") =>
          DataAccessIncrement(catch_up(Machine, cpu.cycle_count).ppu,
                              ppu'.current_vram_addr)]_vars

\* the statement with "rendering" read as the code's is_currently_rendering
\* (VBlank flag clear and background or sprites enabled)
C18_DataAccessIncrementByFlag ==
    [][(bus'.addr = 8199 /\ halt' = "running") =>
          ppu'.current_vram_addr =
             increment_after_ppudata(catch_up(Machine, cpu.cycle_count).ppu)
                .current_vram_addr]_vars

\* a PPUDATA access in scanline 0 of the second frame, background enabled
\* since scanline 130 of the first frame, that added 1 to v
C18_SecondFrameAccess ==
    /\ bus.addr = 8199
    /\ cpu.cycle_count = 30000
    /\ ppu.current_scanline = 0
    /\ ppu.current_vram_addr = 4097
    /\ is_background_enable(ppu)
    /\ is_vblank(ppu)

(***************************************************************************)
(* C21: for every 15-bit v, increment_vram_addr_coarse_x sets coarse_x to  *)
(* (coarse_x + 1) mod 32, toggles nametable-select bit 10 exactly when     *)
(* coarse_x was 31, and leaves coarse_y, fine_y and bit 11 unchanged.      *)
(***************************************************************************)
C21_CoarseXIncrement ==
    [][bus'.op = "increment_vram_addr_coarse_x" =>
          LET v == ppu.current_vram_addr
              w == ppu'.current_vram_addr
          IN /\ w % 32 = ((v % 32) + 1) % 32
             /\ Bit(w, 10) = (IF v % 32 = 31 THEN 1 - Bit(v, 10) ELSE Bit(v, 10))
             /\ (w \div 32) % 32 = (v \div 32) % 32
             /\ w \div 4096 = v \div 4096
             /\ Bit(w, 11) = Bit(v, 11)]_vars

\* test_increment_vram_addr_xy: 0b01_01010_11111 became 0b00_01010_00000
C21_Witness ==
    /\ bus.op = "increment_vram_addr_coarse_x"
    /\ ppu.current_vram_addr = 320

(***************************************************************************)
(* C22: for every 15-bit v, increment_vram_addr_y adds 1 to fine_y when    *)
(* fine_y < 7; when fine_y = 7 it sets fine_y to 0 and coarse_y 29 becomes *)
(* 0 with nametable-select bit 11 toggled, coarse_y 30 and 31 become 0     *)
(* with bit 11 unchanged, any other coarse_y increases by 1; coarse_x and  *)
(* bit 10 never change.                                                    *)
(***************************************************************************)
\* v became w; the coarse y values in `wrapping' become 0 without the toggle
YIncrement(v, w, wrapping) ==
    LET fine_y == v \div 4096
        coarse_y == (v \div 32) % 32
    IN /\ w % 32 = v % 32
       /\ Bit(w, 10) = Bit(v, 10)
       /\ IF fine_y < 7
          THEN /\ w \div 4096 = fine_y + 1
               /\ (w \div 32) % 32 = coarse_y
               /\ Bit(w, 11) = Bit(v, 11)
          ELSE /\ w \div 4096 = 0
               /\ (w \div 32) % 32 =
                     (IF coarse_y = 29 \/ coarse_y \in wrapping
                      THEN 0 ELSE coarse_y + 1)
               /\ Bit(w, 11) =
                     (IF coarse_y = 29 THEN 1 - Bit(v, 11) ELSE Bit(v, 11))

C22_YIncrementWrapping30 ==
    [][bus'.op = "increment_vram_addr_y" =>
          YIncrement(ppu.current_vram_addr, ppu'.current_vram_addr, {30, 31})]_vars

\* C22 with coarse_y 30 among the values that increase by 1: only coarse_y
\* 31 becomes 0 with bit 11 unchanged
C22_YIncrement ==
    [][bus'.op = "increment_vram_addr_y" =>
          YIncrement(ppu.current_vram_addr, ppu'.current_vram_addr, {31})]_vars

\* fine_y 7, coarse_y 30 became fine_y 0, coarse_y 31
C22_Witness ==
    /\ bus.op = "increment_vram_addr_y"
    /\ ppu.current_vram_addr = 992

(***************************************************************************)
(* C24: the horizontal transfer at the end of the drawn part of a          *)
(* pre-render or visible scanline copies only nametable-select bit 10 and  *)
(* coarse_x from t into v; bit 11, coarse_y and fine_y of v are unchanged  *)
(* (t = 0b01_00000_10101, v = 0b10_10000_00000 gives 0b11_10000_10101).    *)
(***************************************************************************)
\* the frame loop runs the PPU p over the iteration of the horizontal transfer
AtHorizontalTransfer(p) ==
    /\ bus'.op = "run"
    /\ \/ p.current_scanline = -1 /\ p.current_scanline_dot = 256
       \/ p.current_scanline \in 0..239 /\ p.current_scanline_dot = 257

C24_HorizontalTransfer ==
    [][AtHorizontalTransfer(ppu) =>
          LET t == ppu.temp_vram_addr
              v == ppu.current_vram_addr
              w == ppu'.current_vram_addr
          IN /\ w % 32 = t % 32
             /\ Bit(w, 10) = Bit(t, 10)
             /\ Bit(w, 11) = Bit(v, 11)
             /\ (w \div 32) % 32 = (v \div 32) % 32
             /\ w \div 4096 = v \div 4096]_vars

\* the part of C24 that the code keeps: coarse_x and bit 10 come from t,
\* coarse_y and fine_y stay
C24_HorizontalTransferButBit11 ==
    [][AtHorizontalTransfer(ppu) =>
          LET t == ppu.temp_vram_addr
              v == ppu.current_vram_addr
              w == ppu'.current_vram_addr
          IN /\ w % 32 = t % 32
             /\ Bit(w, 10) = Bit(t, 10)
             /\ (w \div 32) % 32 = (v \div 32) % 32
             /\ w \div 4096 = v \div 4096]_vars

(***************************************************************************)
(* C25: the vertical transfer in the pre-render scanline copies            *)
(* nametable-select bit 11, coarse_y and fine_y from t into v and leaves   *)
(* bit 10 and coarse_x of v unchanged; it happens in no other scanline.    *)
(***************************************************************************)
C25_VerticalTransfer ==
    [][bus'.op = "run" =>
          LET t == ppu.temp_vram_addr
              v == ppu.current_vram_addr
              w == ppu'.current_vram_addr
          IN /\ (ppu.current_scanline = -1 /\ ppu.current_scanline_dot = 280) =>
                   /\ Bit(w, 11) = Bit(t, 11)
                   /\ (w \div 32) % 32 = (t \div 32) % 32
                   /\ w \div 4096 = t \div 4096
                   /\ Bit(w, 10) = Bit(v, 10)
                   /\ w % 32 = v % 32
             /\ (ppu.current_scanline # -1 /\ ~is_background_enable(ppu)
                   /\ ~is_sprites_enable(ppu)) =>
                   /\ (w \div 32) % 32 = (v \div 32) % 32
                   /\ w \div 4096 = v \div 4096]_vars

\* the part of C25 that the code keeps: coarse_y and fine_y come from t at
\* dot 280 of the pre-render scanline and, rendering disabled, change in no
\* other scanline; bit 10 and coarse_x stay
C25_VerticalTransferButBit11 ==
    [][bus'.op = "run" =>
          LET t == ppu.temp_vram_addr
              v == ppu.current_vram_addr
              w == ppu'.current_vram_addr
          IN /\ (ppu.current_scanline = -1 /\ ppu.current_scanline_dot = 280) =>
                   /\ (w \div 32) % 32 = (t \div 32) % 32
                   /\ w \div 4096 = t \div 4096
                   /\ Bit(w, 10) = Bit(v, 10)
                   /\ w % 32 = v % 32
             /\ (ppu.current_scanline # -1 /\ ~is_background_enable(ppu)
                   /\ ~is_sprites_enable(ppu)) =>
                   /\ (w \div 32) % 32 = (v \div 32) % 32
                   /\ w \div 4096 = v \div 4096]_vars

\* t got nametable 2 after dot 256; after dot 280 bit 11 of v is still 0
C25_Bit11NotCopied ==
    /\ bus.op = "run"
    /\ ppu.current_scanline = -1
    /\ ppu.current_scanline_dot = 288
    /\ Bit(ppu.temp_vram_addr, 11) = 1
    /\ Bit(ppu.current_vram_addr, 11) = 0

(***************************************************************************)
(* C26: the pre-render scanline is shortened by one PPU cycle exactly on   *)
(* odd frames while rendering is enabled (ppumask bit 3 or 4 set): with    *)
(* rendering disabled every frame lasts 262 * 341 = 89342 PPU cycles,      *)
(* whatever the history of enabling and disabling rendering was; with      *)
(* rendering enabled throughout, frame lengths alternate between 89342 and *)
(* 89341.  All other scanlines being 341 cycles long (C27), the frame      *)
(* lasts 89341 cycles exactly when its pre-render scanline lasts 340.      *)
(***************************************************************************)
\* the frame loop ran the PPU from dot 0 of the pre-render scanline to dot 0
\* of scanline 0
PreRenderScanlineRun ==
    /\ bus'.op = "run"
    /\ ppu.current_scanline = -1 /\ ppu.current_scanline_dot = 0
    /\ ppu'.current_scanline = 0 /\ ppu'.current_scanline_dot = 0

C26_OddFrameSkip ==
    [][PreRenderScanlineRun =>
          ppu'.cycle_count - ppu.cycle_count =
             (IF ~ppu.even_frame
                 /\ (is_background_enable(ppu) \/ is_sprites_enable(ppu))
              THEN 340 ELSE 341)]_vars

\* the part of C26 about rendering enabled throughout: the pre-render
\* scanline of the second frame lasts 340 cycles, that of the first 341
C26_OddFrameSkipWhileEnabled ==
    [][(PreRenderScanlineRun
          /\ (is_background_enable(ppu) \/ is_sprites_enable(ppu))) =>
          ppu'.cycle_count - ppu.cycle_count =
             (IF ~ppu.even_frame THEN 340 ELSE 341)]_vars

\* the second frame, rendering disabled since its dot 0, after a pre-render
\* scanline of 340 cycles
C26_ShortFrameWhileDisabled ==
    /\ bus.op = "run"
    /\ ppu.ppumask = 0
    /\ ppu.current_scanline = 0 /\ ppu.current_scanline_dot = 0
    /\ ppu.cycle_count = 89342 + 340

(***************************************************************************)
(* C27: with PPUMASK and fine_x not changed during the scanline, stepping  *)
(* the PPU from dot 0 of any scanline until the dot counter is 0 again on  *)
(* the following scanline advances ppu.cycle_count by exactly 341; the     *)
(* only exception is the pre-render scanline of an odd frame (even_frame   *)
(* false), which takes exactly 340.                                        *)
(***************************************************************************)
C27_ScanlineLength ==
    [][(bus'.op = "run" /\ ppu.current_scanline_dot = 0
          /\ ppu'.current_scanline_dot = 0) =>
          /\ ppu'.current_scanline =
                (IF ppu.current_scanline = 260 THEN -1
                 ELSE ppu.current_scanline + 1)
          /\ ppu'.cycle_count - ppu.cycle_count =
                (IF ppu.current_scanline = -1 /\ ~ppu.even_frame
                 THEN 340 ELSE 341)]_vars

\* scanline 0 of the second frame after a pre-render scanline of 340 cycles,
\* background enabled with fine x 3
C27_Witness ==
    /\ bus.op = "run"
    /\ ppu.current_scanline = 0 /\ ppu.current_scanline_dot = 0
    /\ ppu.cycle_count = 89342 + 340
    /\ ~ppu.even_frame
    /\ is_background_enable(ppu)
    /\ ppu.fine_x_scroll = 3

(***************************************************************************)
(* C28: an OAMDMA write to 0x4014 advances cpu.cycle_count by exactly 513  *)
(* when cpu.cycle_count was even at the start of the transfer and by       *)
(* exactly 514 when it was odd.                                            *)
(***************************************************************************)
C28_OamDmaCycles ==
    [][(bus'.op = "write" /\ bus'.addr = 16404 /\ halt' = "running") =>
          cpu'.cycle_count - cpu.cycle_count =
             (IF cpu.cycle_count % 2 = 0 THEN 513 ELSE 514)]_vars

\* the transfer that started at CPU cycle 113 ended at cycle 627
C28_Witness ==
    /\ bus.op = "write" /\ bus.addr = 16404
    /\ halt = "running"
    /\ cpu.cycle_count = 113 + 514

(***************************************************************************)
(* C29: after an OAMDMA with page p started with oamaddr = a, for every i  *)
(* in 0..255 the OAM byte at (a + i) mod 256 equals the CPU-address-space  *)
(* byte at (p << 8) + i, and oamaddr is a again.                           *)
(***************************************************************************)
\* the step is an OAMDMA that returned
IsOamDma ==
    bus'.op = "write" /\ bus'.addr = 16404 /\ halt' = "running"

\* the byte that a CPU read of addr in 0x0000-0x1FFF returns
cpu_ram_byte(addr) == byte_at(mmc3.internal_ram, addr % 2048)

C29_OamDmaCopiesCpuPage ==
    [][(IsOamDma /\ bus'.val = 2) =>
          /\ \A i \in 0..255 :
                byte_at(ppu'.oam, (ppu.oamaddr + i) % 256)
                   = cpu_ram_byte(bus'.val * 256 + i)
          /\ ppu'.oamaddr = ppu.oamaddr]_vars

\* the part of C29 that the code keeps, with the bytes of the PPU address
\* space in the place of those of the CPU address space
C29_OamDmaCopiesPpuPage ==
    [][IsOamDma =>
          /\ \A i \in 0..255 :
                byte_at(ppu'.oam, (ppu.oamaddr + i) % 256)
                   = ppu_memory_read(ppu_memory, bus'.val * 256 + i).val
          /\ ppu'.oamaddr = ppu.oamaddr]_vars

\* page 0x20 copied from oamaddr 0xFE: the PPU memory byte 0x2A of 0x2000 is
\* at OAM[0xFE]
C29_PpuPageInOam ==
    /\ bus.op = "write" /\ bus.addr = 16404 /\ bus.val = 32
    /\ ppu.oamaddr = 254
    /\ byte_at(ppu.oam, 254) = 42

(***************************************************************************)
(* C30: a CPU write to $2004 while rendering is active (VBlank flag clear  *)
(* and background or sprites enabled) changes neither OAM nor oamaddr;     *)
(* otherwise it stores the value at OAM[oamaddr] and increases oamaddr by  *)
(* 1 modulo 256.  A CPU read of $2004 returns OAM[oamaddr] and changes     *)
(* neither OAM nor oamaddr, so after writing a to $2003 a read of $2004    *)
(* returns OAM[a].                                                         *)
(***************************************************************************)
C30_OamData ==
    [][(bus'.addr = 8196 /\ halt' = "running") =>
          IF bus'.op = "write"
          THEN IF ~is_vblank(ppu') /\ (is_background_enable(ppu')
                                         \/ is_sprites_enable(ppu'))
               THEN ppu'.oam = ppu.oam /\ ppu'.oamaddr = ppu.oamaddr
               ELSE /\ byte_at(ppu'.oam, ppu.oamaddr) = bus'.val
                    /\ \A i \in 0..255 :
                          i # ppu.oamaddr =>
                             byte_at(ppu'.oam, i) = byte_at(ppu.oam, i)
                    /\ ppu'.oamaddr = (ppu.oamaddr + 1) % 256
          ELSE /\ bus'.val = byte_at(ppu.oam, ppu.oamaddr)
               /\ ppu'.oam = ppu.oam /\ ppu'.oamaddr = ppu.oamaddr]_vars

\* a read of $2004 after $2003 = 0xFE returned OAM[0xFE] = 0x22, stored
\* while the background was enabled and the VBlank flag set
C30_Witness ==
    /\ bus.op = "read" /\ bus.addr = 8196 /\ bus.val = 34
    /\ ppu.oamaddr = 254
    /\ is_background_enable(ppu) /\ is_vblank(ppu)

\* a write of $2004 that was ignored: the background is enabled, the VBlank
\* flag clear, and OAM[0xFE] is still 0x11
C30_IgnoredWrite ==
    /\ bus.op = "write" /\ bus.addr = 8196 /\ bus.val = 34
    /\ ppu.oamaddr = 254
    /\ byte_at(ppu.oam, 254) = 17
    /\ is_background_enable(ppu) /\ ~is_vblank(ppu)

(***************************************************************************)
(* C23: bit 15 of v, and of t, is 0 in every state reachable by CPU        *)
(* register reads and writes ($2000, $2005, $2006, $2007) and PPU steps    *)
(* (horizontal and vertical transfers, coarse-x and y increments, VRAM     *)
(* address increments).                                                    *)
(***************************************************************************)
C23_Bit15Clear ==
    /\ ppu.current_vram_addr \in 0..32767
    /\ ppu.temp_vram_addr \in 0..32767

\* v = t = 0x7FFF after PPU steps with the background enabled: every bit
\* below bit 15 is set, and the next increments carry out of fine y
C23_Witness ==
    /\ bus.op = "run"
    /\ ppu.current_vram_addr = 32767
    /\ ppu.temp_vram_addr = 32767
    /\ is_background_enable(ppu)

(***************************************************************************)
(* C31: on the MMC3 PPU bus a byte written to a nametable address is read  *)
(* back from every mirror of it and from no other nametable: horizontal    *)
(* mirroring collapses bit 10 (0x2000+k and 0x2400+k alias, 0x2800+k is    *)
(* distinct), vertical mirroring collapses bit 11 (0x2000+k and 0x2800+k   *)
(* alias, 0x2400+k is distinct), four-screen keeps the four nametables     *)
(* distinct, and 0x3000-0x3EFF mirrors 0x2000-0x2EFF in all three modes.   *)
(***************************************************************************)
\* the mirroring of the memory map pm
MirroringOf(pm) ==
    IF pm.no_mirroring = 1 THEN "FourScreen"
    ELSE IF pm.hor_mirroring = 1 THEN "Hor" ELSE "Vert"

\* the nametable 0..3 of an address of 0x2000-0x3EFF
NametableOf(a) == ((a - 8192) % 4096) \div 1024

\* the addresses a and b name the same nametable byte
SameNametableByte(mirroring, a, b) ==
    /\ a % 1024 = b % 1024
    /\ CASE mirroring = "Hor" ->
              NametableOf(a) \div 2 = NametableOf(b) \div 2
         [] mirroring = "Vert" ->
              NametableOf(a) % 2 = NametableOf(b) % 2
         [] OTHER -> NametableOf(a) = NametableOf(b)

C31_NametableMirroring ==
    [][bus'.op = "ppu_write" /\ bus'.addr \in 8192..16127 =>
         \A a \in NametableAddrs :
            ppu_memory_read(ppu_memory', a).val =
               IF SameNametableByte(MirroringOf(ppu_memory), a, bus'.addr)
               THEN bus'.val
               ELSE ppu_memory_read(ppu_memory, a).val]_vars

\* horizontal mirroring: 17 written to 0x22FF is read at 0x26FF and 0x36FF
\* while 0x2AFF and 0x2EFF hold 34
C31_Witness ==
    /\ bus.op = "ppu_write" /\ bus.addr = 8959 /\ bus.val = 17
    /\ MirroringOf(ppu_memory) = "Hor"
    /\ ppu_memory_read(ppu_memory, 9983).val = 17
    /\ ppu_memory_read(ppu_memory, 14079).val = 17
    /\ ppu_memory_read(ppu_memory, 11007).val = 34
    /\ ppu_memory_read(ppu_memory, 12031).val = 34

(***************************************************************************)
(* C33: a PPU-bus write to an address in 0x2000-0x3EFF stores the value in *)
(* one nametable byte and changes no other nametable byte, no CHR bank     *)
(* byte, no palette byte and no mapper register.                           *)
(***************************************************************************)
\* the indices at which the byte arrays a and b differ
ChangedBytes(a, b) ==
    {j \in DOMAIN a \cup DOMAIN b : byte_at(a, j) # byte_at(b, j)}

C33_NametableWriteFrame ==
    [][bus'.op = "ppu_write" /\ bus'.addr \in 8192..16127 =>
         /\ \E i \in DOMAIN ppu_memory'.nametables :
               /\ ppu_memory'.nametables[i] = bus'.val
               /\ ChangedBytes(ppu_memory.nametables,
                               ppu_memory'.nametables) \subseteq {i}
         /\ ppu_memory'.chr_banks = ppu_memory.chr_banks
         /\ ppu_memory'.palettes = ppu_memory.palettes
         /\ [ppu_memory' EXCEPT !.nametables = ppu_memory.nametables]
               = ppu_memory
         /\ mmc3' = mmc3]_vars

\* four-screen: all 6 sampled nametable bytes are written, the last one at
\* 0x2EFF, and the CHR banks and palettes are as at power-on
C33_Witness ==
    /\ bus.op = "ppu_write" /\ bus.addr = 12031
    /\ MirroringOf(ppu_memory) = "FourScreen"
    /\ Cardinality(DOMAIN ppu_memory.nametables) = 6
    /\ ppu_memory.chr_banks = <<>>
    /\ ppu_memory.palettes = <<>>

(***************************************************************************)
(* C32: CPU reads of the write-only PPU registers $2000, $2001, $2003,     *)
(* $2005 and $2006 (and their mirrors) return 0 and change no PPU state.   *)
(***************************************************************************)
C32_WriteOnlyReads ==
    [][bus'.op = "read" /\ bus'.addr \in 8192..16383
          /\ bus'.addr % 8 \in {0, 1, 3, 5, 6} =>
         bus'.val = 0 /\ ppu' = ppu]_vars

\* the reads of $2000, $2003, $2005 and $2006 return 0, the read of $2001
\* returns ppumask, and none of them changes the PPU
C32_WriteOnlyReadsButMask ==
    [][bus'.op = "read" /\ bus'.addr \in 8192..16383
          /\ bus'.addr % 8 \in {0, 1, 3, 5, 6} =>
         /\ bus'.val = IF bus'.addr % 8 = 1 THEN ppu.ppumask ELSE 0
         /\ ppu' = ppu]_vars

\* $2001 read as 8 through its mirror $3FF9
C32_MaskRead ==
    bus.op = "read" /\ bus.addr = 16377 /\ bus.val = 8

(***************************************************************************)
(* C34: sprite evaluation for a scanline scans primary OAM in index order  *)
(* and copies into secondary OAM exactly the first min(8, k) sprites whose *)
(* Y range [y+1, y+1+sprite_h), sprite_h in {8, 16}, contains the next     *)
(* scanline, k being the number of such sprites; sprites_found never       *)
(* exceeds 8, and only the copy of primary sprite 0 is marked as sprite    *)
(* zero.                                                                   *)
(***************************************************************************)
\* the primary sprites 0..63 whose Y range of sprite_h lines contains the
\* scanline after current_scanline
SpritesOnNextScanline(o, current_scanline, sprite_h) ==
    {i \in 0..63 :
        LET y == byte_at(o.primary, 4 * i)
        IN current_scanline + 1 \in (y + 1)..(y + sprite_h)}

\* the n-th (from 0) element of a set of numbers in increasing order
NthOf(S, n) ==
    CHOOSE i \in S : Cardinality({j \in S : j < i}) = n

\* secondary OAM holds the first min(8, k) sprites of `on` in index order,
\* bits 2-4 of their attributes cleared and bit 3 set on the copy of sprite 0
EvaluatedSprites(o, on) ==
    LET k == Cardinality(on)
        n == IF k < 8 THEN k ELSE 8
    IN /\ o.sprites_found = n
       /\ \A s \in 0..(n - 1) :
            LET i == NthOf(on, s)
                from == get_sprite_unchecked(o.primary, 4 * i)
                to == get_sprite_unchecked(o.secondary, 4 * s)
            IN /\ to.y = from.y
               /\ to.tile_index = from.tile_index
               /\ to.x = from.x
               /\ to.attributes =
                     clear_bits_2_to_4(from.attributes)
                        + (IF i = 0 THEN 8 ELSE 0)

\* the sprites of a scanline are evaluated: the 64 calls are made
SpritesEvaluated == ppu.current_scanline_dot \in 257..321

C34_SpriteEvaluation ==
    /\ ppu.sprite_oam.sprites_found <= 8
    /\ SpritesEvaluated =>
         EvaluatedSprites(ppu.sprite_oam,
            SpritesOnNextScanline(ppu.sprite_oam, ppu.current_scanline,
                                  IF Bit(ppu.ppuctrl, 5) = 1 THEN 16 ELSE 8))

\* the same with sprites 8 lines high whatever PPUCTRL selects
C34_SpriteEvaluation8Lines ==
    /\ ppu.sprite_oam.sprites_found <= 8
    /\ SpritesEvaluated =>
         EvaluatedSprites(ppu.sprite_oam,
            SpritesOnNextScanline(ppu.sprite_oam, ppu.current_scanline, 8))

\* 8x8 sprites: 10 sprites are on the next scanline, the first of them
\* sprite 0, and 8 are found
C34_EightOfTen ==
    /\ SpritesEvaluated
    /\ Bit(ppu.ppuctrl, 5) = 0
    /\ Cardinality(SpritesOnNextScanline(ppu.sprite_oam,
                                         ppu.current_scanline, 8)) = 10
    /\ ppu.sprite_oam.sprites_found = 8
    /\ Bit(byte_at(ppu.sprite_oam.secondary, 2), 3) = 1

(***************************************************************************)
(* C35: the sprite information returned for a dot reports the sprite as in *)
(* front of the background exactly when attribute bit 5 of the sprite is   *)
(* 0: for a sprite with attribute bit 5 set, is_in_front is false.         *)
(***************************************************************************)
\* get_sprite_at_dot_info returned a sprite
SpriteReturned ==
    bus.op = "get_sprite_at_dot_info" /\ bus.val.some

C35_BehindBackground ==
    SpriteReturned =>
       (bus.val.info.is_in_front
           <=> Bit(ppu.sprite_oam.current_sprites_data[bus.val.slot]
                      .attributes, 5) = 0)

\* every sprite returned is reported as in front of the background
C35_AlwaysInFront ==
    SpriteReturned => bus.val.info.is_in_front

\* a sprite with attribute bit 5 set is returned
C35_Bit5Returned ==
    /\ SpriteReturned
    /\ Bit(ppu.sprite_oam.current_sprites_data[bus.val.slot].attributes, 5)
          = 1

(***************************************************************************)
(* C36: for a dot covered by several sprites of the scanline,              *)
(* get_sprite_at_dot_info returns the first sprite in buffer order whose   *)
(* x-range covers the dot and whose colour index at that dot is non-zero:  *)
(* a transparent pixel of an earlier sprite never hides an opaque pixel of *)
(* a later sprite.                                                         *)
(***************************************************************************)
\* the slots of the sprites that cover the dot with a non-zero colour index
OpaqueAtDot(o, dot) ==
    {i \in sprites_at_dot(o, dot) :
        sprite_info(o.current_sprites_data[i], dot).color_index # 0}

C36_FirstOpaqueSprite ==
    bus.op = "get_sprite_at_dot_info" =>
       LET opaque == OpaqueAtDot(ppu.sprite_oam, bus.addr)
       IN IF opaque = {}
          THEN ~bus.val.some
          ELSE /\ bus.val.some
               /\ bus.val.slot \in opaque
               /\ \A i \in opaque : bus.val.slot <= i

\* the sprite returned is the first one that covers the dot, whatever its
\* colour index
C36_FirstCoveringSprite ==
    bus.op = "get_sprite_at_dot_info" =>
       LET found == sprites_at_dot(ppu.sprite_oam, bus.addr)
       IN IF found = {}
          THEN ~bus.val.some
          ELSE /\ bus.val.some
               /\ bus.val.slot \in found
               /\ \A i \in found : bus.val.slot <= i

\* the sprite returned is transparent at the dot and hides an opaque one
C36_TransparentHidesOpaque ==
    /\ SpriteReturned
    /\ bus.val.info.color_index = 0
    /\ OpaqueAtDot(ppu.sprite_oam, bus.addr) # {}

(***************************************************************************)
(* C40: after sprite fetching was called 8 times for a scanline, starting  *)
(* with current_sprite = 0 and sprites_found = n <= 8, slots 0..n-1 of the *)
(* sprite buffer hold the n evaluated sprites in order, every slot index   *)
(* written is in 0..7, slot n holds the end-of-list sentinel (attribute    *)
(* bit 2) when n < 8, no evaluated sprite carries that bit, and            *)
(* get_sprite_at_dot_info only returns data of these n sprites.            *)
(***************************************************************************)
\* the sprites of a scanline are fetched: the 8 calls are made
SpritesFetched == ppu.current_scanline_dot = 321

\* slot s of the buffer holds the sprite s of secondary OAM with its tile
\* row of current_scanline
SlotHoldsSprite(o, s, current_scanline, tiles) ==
    LET sprite == get_sprite_unchecked(o.secondary, 4 * s)
        data == o.current_sprites_data[s]
        row == IF Bit(sprite.attributes, 7) = 1
               THEN 7 - (current_scanline - sprite.y)
               ELSE current_scanline - sprite.y
    IN /\ data.x = sprite.x
       /\ data.attributes = sprite.attributes
       /\ Bit(data.attributes, 2) = 0
       /\ data.tile_bitplane_lo =
             byte_at(tiles, sprite.tile_index * 16 + row)
       /\ data.tile_bitplane_hi =
             byte_at(tiles, sprite.tile_index * 16 + 8 + row)

C40_FetchedSprites ==
    /\ halt = "running"
    /\ SpritesFetched =>
         LET o == ppu.sprite_oam
             n == o.sprites_found
         IN /\ n <= 8
            /\ \A s \in 0..(n - 1) :
                  SlotHoldsSprite(o, s, ppu.current_scanline,
                                  ppu_memory.chr_banks)
            /\ n < 8 => Bit(o.current_sprites_data[n].attributes, 2) = 1
            /\ \A dot \in 0..263 :
                  LET r == get_sprite_at_dot_info(o, dot)
                  IN r.some => r.slot < n
            /\ SpriteReturned => bus.val.slot < n

\* scanline 28: 4 sprites are fetched, slot 4 holds the sentinel, slots 5
\* to 7 hold sprites of scanline 27, and a sprite is returned for the dot
C40_Witness ==
    /\ SpritesFetched /\ SpriteReturned
    /\ ppu.current_scanline = 28
    /\ ppu.sprite_oam.sprites_found = 4
    /\ \A s \in 5..7 :
          /\ Bit(ppu.sprite_oam.current_sprites_data[s].attributes, 2) = 0
          /\ ppu.sprite_oam.current_sprites_data[s].x >= 16

(***************************************************************************)
(* C37: the two BgDrawState implementations are equivalent: for the same   *)
(* v, background pattern-table base and PPU memory contents,               *)
(* shift_tile_data_by_8 followed by fetch_current_tile_data leaves         *)
(* identical tile_bitplanes_hi, tile_bitplanes_lo and tile_palette_indices *)
(* in both (both fetch the tile index from 0x2000 | (v & 0x0FFF)).         *)
(***************************************************************************)
C37_BgDrawStatesEquivalent ==
    ppu.bg_state = ppu.draw_state_bg

\* the same for the addresses v whose low 14 bits are below 0x3F00 once bit
\* 13 is set
C37_EquivalentBelowPalette ==
    (get_addr(ppu.current_vram_addr) % 8192) + 8192 < 16128 =>
        ppu.bg_state = ppu.draw_state_bg

\* v = 0x1F00: the tile index comes from the nametable byte 0x2F00 in one
\* implementation and from the palette byte 0x3F00 in the other
C37_PaletteByteAsTileIndex ==
    /\ bus.op = "fetch_current_tile_data"
    /\ ppu.current_vram_addr = 7936
    /\ ppu_memory_read(ppu_memory, 12032).val = 1
    /\ ppu_memory_read(ppu_memory, 16128).val = 2
    /\ ppu.bg_state.tile_bitplanes_lo # ppu.draw_state_bg.tile_bitplanes_lo

(***************************************************************************)
(* C38: while current_scanline is in 240..260 (post-render and VBlank),    *)
(* PPU stepping changes none of v, t, fine_x and w: only CPU register      *)
(* accesses change the VRAM address state in that window.                  *)
(***************************************************************************)
\* the frame loop ran the PPU over one scanline of 240..260
VblankScanlineRun ==
    /\ bus'.op = "run"
    /\ ppu.current_scanline \in 240..260
    /\ ppu.current_scanline_dot = 0
    /\ ppu'.current_scanline_dot = 0
    /\ ppu'.current_scanline =
          IF ppu.current_scanline = 260 THEN -1 ELSE ppu.current_scanline + 1

C38_VblankKeepsAddress ==
    [][VblankScanlineRun =>
         /\ ppu'.current_vram_addr = ppu.current_vram_addr
         /\ ppu'.temp_vram_addr = ppu.temp_vram_addr
         /\ ppu'.fine_x_scroll = ppu.fine_x_scroll
         /\ ppu'.low_bits_toggle = ppu.low_bits_toggle]_vars

\* t, fine_x, w and the vertical bits of v are kept; coarse x and the
\* nametable select of v are those of t after the scanline
C38_VblankCopiesHorizontalBits ==
    [][VblankScanlineRun =>
         /\ ppu'.current_vram_addr =
               set_coarse_x(set_nametable_select(ppu.current_vram_addr,
                               get_nametable_select(ppu.temp_vram_addr)),
                            get_coarse_x(ppu.temp_vram_addr))
         /\ ppu'.temp_vram_addr = ppu.temp_vram_addr
         /\ ppu'.fine_x_scroll = ppu.fine_x_scroll
         /\ ppu'.low_bits_toggle = ppu.low_bits_toggle]_vars

(***************************************************************************)
(* C39: the CPU's IRQ level is never negative: in every state reachable by *)
(* CPU writes to the MMC3 registers in 0x8000-0xFFFF (repeated writes to   *)
(* $E000 and $E001 included) and A12 clocks, 0 <= cpu.irq <= 1.            *)
(***************************************************************************)
C39_IrqLevelRange == cpu.irq \in 0..1

====
